---------------------------- MODULE Spec2Model ----------------------------
(***************************************************************************)
(* A model of tn3270s: the 3270 data-stream codec (src/src/tn3270/stream.rs *)
(* and src/src/encoding.rs) and the TN3270 session layer                   *)
(* (src/src/tn3270.rs).  Bytes are integers 0..255, characters are Unicode *)
(* code points, text is a sequence of code points.                         *)
(***************************************************************************)
EXTENDS Integers, Sequences, FiniteSets, TLC

(***************************************************************************)
(* Bounds of the model.                                                    *)
(***************************************************************************)
\* longest order list of a WriteCommand the application serializes
MaxOrders == 2
\* longest order tail (bytes after the 3-byte header) of a fuzzed record
MaxTail == 3

(***************************************************************************)
(* Small helpers on sequences.                                             *)
(***************************************************************************)
RECURSIVE Flatten(_)
Flatten(ss) ==
  IF Len(ss) = 0 THEN <<>> ELSE Head(ss) \o Flatten(Tail(ss))

SeqsUpTo(S, n) == UNION { [1..k -> S] : k \in 0..n }

Min(a, b) == IF a < b THEN a ELSE b

\* s[from .. len], 0-based `from' as in a Rust slice &s[from..]
Drop(s, from) == SubSeq(s, from + 1, Len(s))

\* s[0 .. n), as in a Rust slice &s[..n]
Take(s, n) == SubSeq(s, 1, n)

(***************************************************************************)
(* encoding/cp037.rs: the code page 037 tables.  The file is not part of   *)
(* the source tree at hand; the tables are the standard code page.         *)
(***************************************************************************)
DECODE_TBL ==
  <<
      0,   1,   2,   3, 156,   9, 134, 127, 151, 141, 142,  11,  12,  13,  14,  15,
     16,  17,  18,  19, 157, 133,   8, 135,  24,  25, 146, 143,  28,  29,  30,  31,
    128, 129, 130, 131, 132,  10,  23,  27, 136, 137, 138, 139, 140,   5,   6,   7,
    144, 145,  22, 147, 148, 149, 150,   4, 152, 153, 154, 155,  20,  21, 158,  26,
     32, 160, 226, 228, 224, 225, 227, 229, 231, 241, 162,  46,  60,  40,  43, 124,
     38, 233, 234, 235, 232, 237, 238, 239, 236, 223,  33,  36,  42,  41,  59, 172,
     45,  47, 194, 196, 192, 193, 195, 197, 199, 209, 166,  44,  37,  95,  62,  63,
    248, 201, 202, 203, 200, 205, 206, 207, 204,  96,  58,  35,  64,  39,  61,  34,
    216,  97,  98,  99, 100, 101, 102, 103, 104, 105, 171, 187, 240, 253, 254, 177,
    176, 106, 107, 108, 109, 110, 111, 112, 113, 114, 170, 186, 230, 184, 198, 164,
    181, 126, 115, 116, 117, 118, 119, 120, 121, 122, 161, 191, 208, 221, 222, 174,
     94, 163, 165, 183, 169, 167, 182, 188, 189, 190,  91,  93, 175, 168, 180, 215,
    123,  65,  66,  67,  68,  69,  70,  71,  72,  73, 173, 244, 246, 242, 243, 245,
    125,  74,  75,  76,  77,  78,  79,  80,  81,  82, 185, 251, 252, 249, 250, 255,
     92, 247,  83,  84,  85,  86,  87,  88,  89,  90, 178, 212, 214, 210, 211, 213,
     48,  49,  50,  51,  52,  53,  54,  55,  56,  57, 179, 219, 220, 217, 218, 159
  >>

ENCODE_TBL ==
  <<
      0,   1,   2,   3,  55,  45,  46,  47,  22,   5,  37,  11,  12,  13,  14,  15,
     16,  17,  18,  19,  60,  61,  50,  38,  24,  25,  63,  39,  28,  29,  30,  31,
     64,  90, 127, 123,  91, 108,  80, 125,  77,  93,  92,  78, 107,  96,  75,  97,
    240, 241, 242, 243, 244, 245, 246, 247, 248, 249, 122,  94,  76, 126, 110, 111,
    124, 193, 194, 195, 196, 197, 198, 199, 200, 201, 209, 210, 211, 212, 213, 214,
    215, 216, 217, 226, 227, 228, 229, 230, 231, 232, 233, 186, 224, 187, 176, 109,
    121, 129, 130, 131, 132, 133, 134, 135, 136, 137, 145, 146, 147, 148, 149, 150,
    151, 152, 153, 162, 163, 164, 165, 166, 167, 168, 169, 192,  79, 208, 161,   7,
     32,  33,  34,  35,  36,  21,   6,  23,  40,  41,  42,  43,  44,   9,  10,  27,
     48,  49,  26,  51,  52,  53,  54,   8,  56,  57,  58,  59,   4,  20,  62, 255,
     65, 170,  74, 177, 159, 178, 106, 181, 189, 180, 154, 138,  95, 202, 175, 188,
    144, 143, 234, 250, 190, 160, 182, 179, 157, 218, 155, 139, 183, 184, 185, 171,
    100, 101,  98, 102,  99, 103, 158, 104, 116, 113, 114, 115, 120, 117, 118, 119,
    172, 105, 237, 238, 235, 239, 236, 191, 128, 253, 254, 251, 252, 173, 174,  89,
     68,  69,  66,  70,  67,  71, 156,  72,  84,  81,  82,  83,  88,  85,  86,  87,
    140,  73, 205, 206, 203, 207, 204, 225, 112, 221, 222, 219, 220, 141, 142, 223
  >>

\* cp037::DECODE_TBL[v as usize] as char
Decode(b) == DECODE_TBL[b + 1]

\* cp037::ENCODE_TBL.get(ch as usize): the entry, or -1 for None
EncodeGet(ch) == IF ch < Len(ENCODE_TBL) THEN ENCODE_TBL[ch + 1] ELSE -1

\* a translation without the `if ch < 0x40' filter
to_cp037_char_raw(ch) ==
  LET e == EncodeGet(ch)
  IN  IF e = -1 THEN 64 ELSE e

\* encoding.rs to_cp037, one character
to_cp037_char(ch) ==
  LET e == EncodeGet(ch)
      c == IF e = -1 THEN 64 ELSE e
  IN  IF c < 64 THEN 64 ELSE c

\* encoding.rs to_cp037: the iterator maps every character
to_cp037(text) == [i \in 1..Len(text) |-> to_cp037_char(text[i])]

(***************************************************************************)
(* stream.rs: wire primitives.                                             *)
(***************************************************************************)
WCC_TRANS ==
  <<
     64, 193, 194, 195, 196, 197, 198, 199,
    200, 201,  74,  75,  76,  77,  78,  79,
     80, 209, 210, 211, 212, 213, 214, 215,
    216, 217,  90,  91,  92,  93,  94,  95,
     96,  97, 226, 227, 228, 229, 230, 231,
    232, 233, 106, 107, 108, 109, 110, 111,
    240, 241, 242, 243, 244, 245, 246, 247,
    248, 249, 122, 123, 124, 125, 126, 127
  >>

make_ascii_translatable(val) == WCC_TRANS[(val % 64) + 1]

\* bitflags from_bits: Some iff no bit outside the declared flags is set.
\* FieldAttribute declares 0x80 0x40 0x20 0x10 0x0C 0x08 0x04 0x01: bit 0x02 is
\* not a flag.
FieldAttributeFromBitsOk(v) == (v \div 2) % 2 = 0

\* FieldOutline declares bits 0b1111, FieldValidation bits 0b111
FieldOutlineFromBitsOk(v) == v < 16

FieldValidationFromBitsOk(v) == v < 8

ColorNames ==
  << "Default", "NeutralBG", "Blue", "Red", "Pink", "Green", "Turquoise",
     "Yellow", "NeutralFG", "Black", "DeepBlue", "Orange", "Purple",
     "PaleGreen", "PaleTurquoise", "Grey", "White" >>

\* impl Into<u8> for Color
ColorToByte(c) ==
  LET i == CHOOSE k \in 1..Len(ColorNames) : ColorNames[k] = c
  IN  IF i = 1 THEN 0 ELSE 240 + (i - 2)

\* impl TryFrom<u8> for Color: the variant, or "Invalid"
ColorFromByte(v) ==
  IF v = 0 THEN "Default"
  ELSE IF v >= 240 /\ v <= 255 THEN ColorNames[v - 240 + 2]
  ELSE "Invalid"

HighlightingNames == << "Default", "Normal", "Blink", "Reverse", "Underscore" >>

HighlightingBytes == << 0, 240, 241, 242, 244 >>

\* impl Into<u8> for Highlighting (self as u8)
HighlightingToByte(h) ==
  HighlightingBytes[CHOOSE k \in 1..5 : HighlightingNames[k] = h]

\* impl TryFrom<u8> for Highlighting
HighlightingFromByte(v) ==
  IF \E k \in 1..5 : HighlightingBytes[k] = v
  THEN HighlightingNames[CHOOSE k \in 1..5 : HighlightingBytes[k] = v]
  ELSE "Invalid"

TransparencyNames == << "Default", "Or", "Xor", "Opaque" >>

TransparencyBytes == << 0, 240, 241, 242 >>

\* impl From<Transparency> for u8
TransparencyToByte(t) ==
  TransparencyBytes[CHOOSE k \in 1..4 : TransparencyNames[k] = t]

\* impl TryFrom<u8> for Transparency
TransparencyFromByte(v) ==
  IF \E k \in 1..4 : TransparencyBytes[k] = v
  THEN TransparencyNames[CHOOSE k \in 1..4 : TransparencyBytes[k] = v]
  ELSE "Invalid"

(***************************************************************************)
(* ExtendedFieldAttribute: [typ, bits, name].  `bits' carries the payload  *)
(* of the bitflag and u8 variants, `name' the enum payload of the others.  *)
(***************************************************************************)
Efa(typ, bits, name) == [typ |-> typ, bits |-> bits, name |-> name]

\* ExtendedFieldAttribute::encoded
encoded(a) ==
  CASE a.typ = "AllAttributes"        -> << 0, 0 >>
    [] a.typ = "FieldAttribute"       -> << 192, make_ascii_translatable(a.bits) >>
    [] a.typ = "ExtendedHighlighting" -> << 65, HighlightingToByte(a.name) >>
    [] a.typ = "BackgroundColor"      -> << 69, ColorToByte(a.name) >>
    [] a.typ = "ForegroundColor"      -> << 66, ColorToByte(a.name) >>
    [] a.typ = "CharacterSet"         -> << 67, a.bits >>
    [] a.typ = "FieldOutlining"       -> << 194, a.bits >>
    [] a.typ = "Transparency"         -> << 70, TransparencyToByte(a.name) >>
    [] a.typ = "FieldValidation"      -> << 193, a.bits >>

\* impl TryFrom<&[u8]> for ExtendedFieldAttribute:
\* [ok |-> TRUE, attr |-> a] or [ok |-> FALSE, err |-> e]
EfaOk(a) == [ok |-> TRUE, attr |-> a, err |-> "none"]

EfaErr(e) == [ok |-> FALSE, attr |-> Efa("AllAttributes", 0, ""), err |-> e]

ExtendedFieldAttribute_try_from(value) ==
  IF Len(value) # 2 THEN EfaErr("UnexpectedEOR")
  ELSE
    LET t == value[1]
        v == value[2]
    IN  CASE t = 0 /\ v = 0 -> EfaOk(Efa("AllAttributes", 0, ""))
          [] t = 0 /\ v # 0 -> EfaErr("InvalidData")
          [] t = 192 ->
               IF FieldAttributeFromBitsOk(v % 64)
               THEN EfaOk(Efa("FieldAttribute", v % 64, ""))
               ELSE EfaErr("InvalidData")
          [] t = 65 ->
               IF HighlightingFromByte(v) # "Invalid"
               THEN EfaOk(Efa("ExtendedHighlighting", 0, HighlightingFromByte(v)))
               ELSE EfaErr("InvalidData")
          [] t = 69 ->
               IF ColorFromByte(v) # "Invalid"
               THEN EfaOk(Efa("BackgroundColor", 0, ColorFromByte(v)))
               ELSE EfaErr("InvalidData")
          [] t = 66 ->
               IF ColorFromByte(v) # "Invalid"
               THEN EfaOk(Efa("ForegroundColor", 0, ColorFromByte(v)))
               ELSE EfaErr("InvalidData")
          [] t = 67 -> EfaOk(Efa("CharacterSet", v, ""))
          [] t = 194 ->
               IF FieldOutlineFromBitsOk(v)
               THEN EfaOk(Efa("FieldOutlining", v, ""))
               ELSE EfaErr("InvalidData")
          [] t = 70 ->
               IF TransparencyFromByte(v) # "Invalid"
               THEN EfaOk(Efa("Transparency", 0, TransparencyFromByte(v)))
               ELSE EfaErr("InvalidData")
          [] t = 193 ->
               IF FieldValidationFromBitsOk(v)
               THEN EfaOk(Efa("FieldValidation", v, ""))
               ELSE EfaErr("InvalidData")
          [] OTHER -> EfaErr("InvalidData")

(***************************************************************************)
(* AID: the variants in declaration order and the byte of each             *)
(* (impl From<AID> for u8).                                                *)
(***************************************************************************)
AidNames ==
  << "NoAIDGenerated", "NoAIDGeneratedPrinter", "StructuredField",
     "ReadPartition", "TriggerAction", "SysReq",
     "PF1", "PF2", "PF3", "PF4", "PF5", "PF6", "PF7", "PF8", "PF9",
     "PF10", "PF11", "PF12", "PF13", "PF14", "PF15", "PF16", "PF17", "PF18",
     "PF19", "PF20", "PF21", "PF22", "PF23", "PF24",
     "PA1", "PA2", "PA3", "Clear", "ClearPartition", "Enter",
     "SelectorPenAttention", "MagReaderOperatorID", "MagReaderNumber" >>

AidToByteTbl ==
  <<  96, 232, 136,
      97, 127, 240,
     241, 242, 243, 244, 245, 246, 247, 248, 249,
     122, 123, 124, 193, 194, 195, 196, 197, 198,
     199, 200, 201,  74,  75,  76,
     108, 110, 107, 109, 106, 125,
     126, 230, 231 >>

AID == { AidNames[i] : i \in 1..Len(AidNames) }

\* impl From<AID> for u8
AID_to_u8(aid) ==
  AidToByteTbl[CHOOSE i \in 1..Len(AidNames) : AidNames[i] = aid]

\* impl TryFrom<u8> for AID: the match arms in source order
AidFromByteArms ==
  << <<  96, "NoAIDGenerated" >>, << 232, "NoAIDGeneratedPrinter" >>,
     << 136, "StructuredField" >>, <<  97, "ReadPartition" >>,
     << 127, "TriggerAction" >>, << 240, "SysReq" >>,
     << 241, "PF1" >>, << 242, "PF2" >>, << 243, "PF3" >>, << 244, "PF4" >>,
     << 245, "PF5" >>, << 246, "PF6" >>, << 247, "PF7" >>, << 248, "PF8" >>,
     << 249, "PF9" >>, << 122, "PF10" >>, << 123, "PF11" >>, << 124, "PF12" >>,
     << 193, "PF13" >>, << 194, "PF14" >>, << 195, "PF15" >>, << 196, "PF16" >>,
     << 197, "PF17" >>, << 198, "PF18" >>, << 199, "PF19" >>, << 200, "PF20" >>,
     << 201, "PF21" >>, <<  74, "PF22" >>, <<  75, "PF23" >>, <<  76, "PF24" >>,
     << 108, "PA1" >>, << 110, "PA2" >>, << 107, "PA3" >>, << 109, "Clear" >>,
     << 106, "ClearPartition" >>, << 125, "Enter" >>,
     << 126, "SelectorPenAttention" >>, << 230, "MagReaderOperatorID" >>,
     << 231, "MagReaderNumber" >> >>

\* a decoder whose wildcard arm maps every unknown byte to the first variant
AID_try_from_total(b) ==
  LET hits == { i \in 1..Len(AidFromByteArms) : AidFromByteArms[i][1] = b }
  IN  IF hits = {} THEN AidFromByteArms[1][2]
      ELSE AidFromByteArms[CHOOSE i \in hits : \A j \in hits : i <= j][2]

\* the variant of byte b, or "Invalid" for Err(InvalidAID { aid: b })
AID_try_from(b) ==
  LET hits == { i \in 1..Len(AidFromByteArms) : AidFromByteArms[i][1] = b }
  IN  IF hits = {} THEN "Invalid"
      ELSE AidFromByteArms[CHOOSE i \in hits : \A j \in hits : i <= j][2]

(***************************************************************************)
(* Buffer addresses.                                                       *)
(***************************************************************************)
\* BufferAddressCalculator { width: 80, height: 24 } of Screen::present
Width == 80

Height == 24

\* u16 arithmetic wraps in release builds
U16(n) == n % 65536

\* struct BufferAddressCalculator { width, height }
BufferAddressCalculator(w, h) == [width |-> w, height |-> h]

\* an encoder that multiplies by the height
calc_encode_address_rows(self, y, x) == U16(self.height * y + x)

\* BufferAddressCalculator::encode_address(self, y, x)
calc_encode_address(self, y, x) == U16(self.width * y + x)

\* BufferAddressCalculator::last_address(self)
calc_last_address(self) == U16(U16(self.width * self.height) + 65535)

\* BufferAddressCalculator::decode_address(self, addr)
calc_decode_address(self, addr) == << addr \div self.width, addr % self.width >>

\* a u16 product or sum that does not fit 16 bits (panics in a debug build)
Overflows(n) == n < 0 \/ n > 65535

\* the calculator Screen::present builds
acalc == BufferAddressCalculator(Width, Height)

encode_address(y, x) == calc_encode_address(acalc, y, x)

last_address == calc_last_address(acalc)

decode_address(addr) == calc_decode_address(acalc, addr)

\* a decoder that reads every address as 14-bit big-endian
parse_addr_binary(e) == [ok |-> TRUE, addr |-> U16(e[1] * 256 + e[2])]

\* parse_addr(encoded): [ok, addr]; encoded has two bytes at every call site
parse_addr(e) ==
  LET top == e[1] \div 64
  IN  IF top = 0 THEN [ok |-> TRUE, addr |-> U16(e[1] * 256 + e[2])]
      ELSE IF top = 1 \/ top = 3
           THEN [ok |-> TRUE, addr |-> (e[1] % 64) * 64 + (e[2] % 64)]
           ELSE [ok |-> FALSE, addr |-> 0]

(***************************************************************************)
(* WriteOrder: [op, addr, val, attrs, text].  Unused fields are 0 / <<>>.  *)
(***************************************************************************)
Order(op, addr, val, attrs, text) ==
  [op |-> op, addr |-> addr, val |-> val, attrs |-> attrs, text |-> text]

StartField(bits)                == Order("StartField", 0, bits, <<>>, <<>>)

StartFieldExtended(attrs)       == Order("StartFieldExtended", 0, 0, attrs, <<>>)

SetBufferAddress(addr)          == Order("SetBufferAddress", addr, 0, <<>>, <<>>)

SetAttribute(attr)              == Order("SetAttribute", 0, 0, << attr >>, <<>>)

ModifyField(attrs)              == Order("ModifyField", 0, 0, attrs, <<>>)

InsertCursor(addr)              == Order("InsertCursor", addr, 0, <<>>, <<>>)

ProgramTab                      == Order("ProgramTab", 0, 0, <<>>, <<>>)

RepeatToAddress(addr, ch)       == Order("RepeatToAddress", addr, ch, <<>>, <<>>)

EraseUnprotectedToAddress(addr) == Order("EraseUnprotectedToAddress", addr, 0, <<>>, <<>>)

GraphicEscape(b)                == Order("GraphicEscape", 0, b, <<>>, <<>>)

SendText(text)                  == Order("SendText", 0, 0, <<>>, text)

\* the two address bytes every addressed order writes:
\* (addr >> 8) as u8, (addr & 0xff) as u8
AddrBytes(addr) == << (addr \div 256) % 256, addr % 256 >>

\* ExtendedFieldAttribute::encode_into over a list
EncodeAttrs(attrs) == Flatten([i \in 1..Len(attrs) |-> encoded(attrs[i])])

\* WriteOrder::serialize panics only where it indexes ENCODE_TBL directly
WriteOrder_serialize_panics(o) ==
  o.op = "RepeatToAddress" /\ o.val >= Len(ENCODE_TBL)

\* WriteOrder::serialize: the bytes appended to output
WriteOrder_serialize(o) ==
  CASE o.op = "StartField" -> << 29, o.val >>
    [] o.op = "StartFieldExtended" ->
         << 41, Len(o.attrs) % 256 >> \o EncodeAttrs(o.attrs)
    [] o.op = "SetBufferAddress" -> << 17 >> \o AddrBytes(o.addr)
    [] o.op = "SetAttribute" -> << 40 >> \o encoded(o.attrs[1])
    [] o.op = "ModifyField" ->
         << 44, Len(o.attrs) % 256 >> \o EncodeAttrs(o.attrs)
    [] o.op = "InsertCursor" -> << 17 >> \o AddrBytes(o.addr)
    [] o.op = "ProgramTab" -> << 5 >>
    [] o.op = "RepeatToAddress" ->
         << 60 >> \o AddrBytes(o.addr) \o
         << IF o.val < Len(ENCODE_TBL) THEN ENCODE_TBL[o.val + 1] ELSE 0 >>
    [] o.op = "EraseUnprotectedToAddress" -> << 18 >> \o AddrBytes(o.addr)
    [] o.op = "GraphicEscape" -> << 8, o.val >>
    [] o.op = "SendText" -> to_cp037(o.text)

\* WriteCommandCode::to_command_code
to_command_code(c) ==
  CASE c = "Write" -> 241
    [] c = "EraseWrite" -> 245
    [] c = "EraseWriteAlternate" -> 126
    [] c = "EraseAllUnprotected" -> 111
    [] c = "WriteStructuredField" -> 243

\* WCC::to_ascii_compat
to_ascii_compat(wcc) == make_ascii_translatable(wcc)

\* the order bytes of a command, in declared order
SerializeOrders(orders) ==
  Flatten([i \in 1..Len(orders) |-> WriteOrder_serialize(orders[i])])

\* WriteCommand::serialize, with c = [command, wcc, orders]
WriteCommand_serialize(c) ==
  << to_command_code(c.command), to_ascii_compat(c.wcc) >> \o SerializeOrders(c.orders)

(***************************************************************************)
(* IncomingRecord::parse_record.  The result is                            *)
(*   [st |-> "Ok",    aid, addr, orders]   for Ok(record),                  *)
(*   [st |-> "Err",   err, aid_byte]       for Err(StreamFormatError),      *)
(*   [st |-> "Panic"]                      for an index out of bounds;      *)
(* iters counts the iterations of the order loop that were started.        *)
(***************************************************************************)
ParseResult(st, err, aid, aid_byte, addr, orders, iters) ==
  [st |-> st, err |-> err, aid |-> aid, aid_byte |-> aid_byte,
   addr |-> addr, orders |-> orders, iters |-> iters]

\* one pass of the body of `while record.len() > 0': the order pushed and the
\* slice left, or the error returned, or a panic
StepOk(order, rest) == [st |-> "Ok", err |-> "none", order |-> order, rest |-> rest]

StepErr(e) == [st |-> "Err", err |-> e, order |-> ProgramTab, rest |-> <<>>]

StepPanic == [st |-> "Panic", err |-> "none", order |-> ProgramTab, rest |-> <<>>]

\* attrs.chunks(2).map(ExtendedFieldAttribute::try_from) over an even slice
AttrChunks(bytes) ==
  [i \in 1..(Len(bytes) \div 2) |->
     ExtendedFieldAttribute_try_from(<< bytes[2 * i - 1], bytes[2 * i] >>)]

\* .collect::<Result<Vec<_>, _>>(): the first error in order, or all values
CollectAttrs(rs) ==
  LET bad == { i \in 1..Len(rs) : ~rs[i].ok }
  IN  IF bad = {}
      THEN [ok |-> TRUE, attrs |-> [i \in 1..Len(rs) |-> rs[i].attr], err |-> "none"]
      ELSE [ok |-> FALSE, attrs |-> <<>>,
            err |-> rs[CHOOSE i \in bad : \A j \in bad : i <= j].err]

\* the arms 0x29 and 0x2C share their code; mk builds the order
AttrListArm(record, op) ==
  IF Len(record) < 2 THEN StepErr("UnexpectedEOR")
  ELSE
    LET count == record[2]
        body  == Drop(record, 2)
    IN  IF Len(body) < count * 2 THEN StepErr("UnexpectedEOR")
        ELSE
          LET got == CollectAttrs(AttrChunks(Take(body, 2 * count)))
          IN  IF got.ok
              THEN StepOk(Order(op, 0, 0, got.attrs, <<>>), Drop(body, 2 * count))
              ELSE StepErr(got.err)

\* an address arm that takes a cut-off order as address 0
AddrArm_lenient(record, op) ==
  IF Len(record) < 3 THEN StepOk(Order(op, 0, 0, <<>>, <<>>), <<>>)
  ELSE
    LET a == parse_addr(SubSeq(record, 2, 3))
    IN  IF a.ok THEN StepOk(Order(op, a.addr, 0, <<>>, <<>>), Drop(record, 3))
        ELSE StepErr("InvalidData")

\* the arms 0x11, 0x13 and 0x12: a 2-byte address
AddrArm(record, op) ==
  IF Len(record) < 3 THEN StepErr("UnexpectedEOR")
  ELSE
    LET a == parse_addr(SubSeq(record, 2, 3))
    IN  IF a.ok THEN StepOk(Order(op, a.addr, 0, <<>>, <<>>), Drop(record, 3))
        ELSE StepErr("InvalidData")

\* a text run that stops after one byte
TextRunLen_one(record) == 1

\* record.iter().position(|&v| v < 0x40).unwrap_or(record.len())
TextRunLen(record) ==
  LET ctl == { i \in 1..Len(record) : record[i] < 64 }
  IN  IF ctl = {} THEN Len(record)
      ELSE (CHOOSE i \in ctl : \A j \in ctl : i <= j) - 1

OrderStep(record) ==
  LET b == record[1]
  IN  CASE b = 29 ->
             IF Len(record) < 2 THEN StepErr("UnexpectedEOR")
             ELSE IF ~FieldAttributeFromBitsOk(record[2] % 64)
                  THEN StepErr("InvalidData")
                  ELSE StepOk(StartField(record[2] % 64), Drop(record, 2))
        [] b = 41 -> AttrListArm(record, "StartFieldExtended")
        [] b = 17 -> AddrArm(record, "SetBufferAddress")
        [] b = 40 ->
             IF Len(record) < 3 THEN StepErr("UnexpectedEOR")
             ELSE
               LET r == ExtendedFieldAttribute_try_from(SubSeq(record, 2, 3))
               IN  IF r.ok THEN StepOk(SetAttribute(r.attr), Drop(record, 3))
                   ELSE StepErr(r.err)
        [] b = 44 -> AttrListArm(record, "ModifyField")
        [] b = 19 -> AddrArm(record, "InsertCursor")
        [] b = 5 -> StepOk(ProgramTab, Drop(record, 1))
        [] b = 60 ->
             IF Len(record) < 4 THEN StepErr("UnexpectedEOR")
             ELSE
               LET a == parse_addr(SubSeq(record, 2, 3))
               IN  IF ~a.ok THEN StepErr("InvalidData")
                   \* DECODE_TBL[record[4] as usize]: index 4 of a 4-byte slice
                   ELSE IF Len(record) < 5 THEN StepPanic
                   ELSE StepOk(RepeatToAddress(a.addr, Decode(record[5])),
                               Drop(record, 4))
        [] b = 18 -> AddrArm(record, "EraseUnprotectedToAddress")
        [] b = 8 ->
             IF Len(record) < 2 THEN StepErr("UnexpectedEOR")
             \* record[2]: index 2 of a 2-byte slice
             ELSE IF Len(record) < 3 THEN StepPanic
             ELSE StepOk(GraphicEscape(record[3]), Drop(record, 2))
        [] b >= 64 ->
             LET len == TextRunLen(record)
             IN  StepOk(SendText([i \in 1..len |-> Decode(record[i])]),
                        Drop(record, len))
        [] OTHER -> StepErr("InvalidData")

\* a loop that spends one more iteration, consuming nothing, after every
\* ProgramTab
RECURSIVE ParseOrders_stall(_, _, _, _, _)
ParseOrders_stall(record, aid, addr, orders, iters) ==
  IF Len(record) = 0
  THEN ParseResult("Ok", "none", aid, 0, addr, orders, iters)
  ELSE
    LET s == OrderStep(record)
    IN  CASE s.st = "Panic" ->
               ParseResult("Panic", "none", aid, 0, addr, <<>>, iters + 1)
          [] s.st = "Err" ->
               ParseResult("Err", s.err, aid, 0, addr, <<>>, iters + 1)
          [] OTHER ->
               ParseOrders_stall(s.rest, aid, addr, Append(orders, s.order),
                                 IF s.order = ProgramTab THEN iters + 2
                                 ELSE iters + 1)

\* the `while record.len() > 0' loop
RECURSIVE ParseOrders(_, _, _, _, _)
ParseOrders(record, aid, addr, orders, iters) ==
  IF Len(record) = 0
  THEN ParseResult("Ok", "none", aid, 0, addr, orders, iters)
  ELSE
    LET s == OrderStep(record)
    IN  CASE s.st = "Panic" ->
               ParseResult("Panic", "none", aid, 0, addr, <<>>, iters + 1)
          [] s.st = "Err" ->
               ParseResult("Err", s.err, aid, 0, addr, <<>>, iters + 1)
          [] OTHER ->
               ParseOrders(s.rest, aid, addr, Append(orders, s.order), iters + 1)

parse_record(record) ==
  IF Len(record) < 3
  THEN ParseResult("Err", "UnexpectedEOR", "Invalid", 0, 0, <<>>, 0)
  ELSE
    LET aid == AID_try_from(record[1])
        a   == parse_addr(SubSeq(record, 2, 3))
    IN  IF aid = "Invalid"
        THEN ParseResult("Err", "InvalidAID", "Invalid", record[1], 0, <<>>, 0)
        ELSE IF ~a.ok
        THEN ParseResult("Err", "InvalidData", aid, 0, 0, <<>>, 0)
        ELSE ParseOrders(Drop(record, 3), aid, a.addr, <<>>, 0)

(***************************************************************************)
(* The telnet primitive (the libtelnet_rs dependency: Parser, its option   *)
(* table and its events).  Its code is not part of the source tree; it is  *)
(* modelled from its use in tn3270.rs and from the contract the            *)
(* specification gives for it: a byte-wise RFC 854 parser that keeps its   *)
(* place across calls of receive, undoubles IAC IAC, and emits data,       *)
(* IAC, negotiation and subnegotiation events plus the replies to send.    *)
(***************************************************************************)
IAC  == 255
DONT == 254
DO   == 253
WONT == 252
WILL == 251
SB   == 250
SE   == 240
EOR  == 239
NOP  == 241

\* telnet options (op_option)
OPT_BINARY == 0
OPT_TTYPE  == 24
OPT_EOR    == 25

Options == { OPT_BINARY, OPT_TTYPE, OPT_EOR }

\* an entry of the option table
Entry(l, r, ls, rs) == [local |-> l, remote |-> r, local_state |-> ls, remote_state |-> rs]

\* events
Event(kind, data, command, option) ==
  [kind |-> kind, data |-> data, command |-> command, option |-> option]

DataSend(data)            == Event("DataSend", data, 0, 0)

DataReceive(data)         == Event("DataReceive", data, 0, 0)

IacEvent(command)         == Event("IAC", <<>>, command, 0)

Negotiation(command, opt) == Event("Negotiation", <<>>, command, opt)

Subnegotiation(opt, buf)  == Event("Subnegotiation", buf, 0, opt)

\* the parser: the option table and the place in an unfinished sequence
\*   mode: "Normal" | "IAC" | "Neg" | "Sub" | "SubIAC"
ParserRec(opts, mode, command, sub) ==
  [opts |-> opts, mode |-> mode, command |-> command, sub |-> sub]

\* CompatibilityTable::get_option: options never set read as all-false
get_option(opts, o) == IF o \in DOMAIN opts THEN opts[o] ELSE Entry(FALSE, FALSE, FALSE, FALSE)

\* CompatibilityTable::set_option
set_option(opts, o, e) == [x \in (DOMAIN opts) \cup {o} |-> IF x = o THEN e ELSE opts[x]]

\* Parser::_will: [opts, ev] with ev the events to send (none or one)
parser_will(opts, o) ==
  LET e == get_option(opts, o)
  IN  IF e.local /\ ~e.local_state
      THEN [opts |-> set_option(opts, o, [e EXCEPT !.local_state = TRUE]),
            ev |-> << DataSend(<< IAC, WILL, o >>) >>]
      ELSE [opts |-> opts, ev |-> <<>>]

\* Parser::_do
parser_do(opts, o) ==
  LET e == get_option(opts, o)
  IN  IF e.remote /\ ~e.remote_state
      THEN [opts |-> opts, ev |-> << DataSend(<< IAC, DO, o >>) >>]
      ELSE [opts |-> opts, ev |-> <<>>]

\* Parser::subnegotiation
parser_subnegotiation(opts, o, data) ==
  LET e == get_option(opts, o)
  IN  IF e.local /\ e.local_state
      THEN << DataSend(<< IAC, SB, o >> \o data \o << IAC, SE >>) >>
      ELSE <<>>

\* a received WILL / WONT / DO / DONT for option o: [opts, ev]
OnNegotiation(opts, command, o) ==
  LET e == get_option(opts, o)
  IN  CASE command = WILL ->
             IF e.remote /\ ~e.remote_state
             THEN [opts |-> set_option(opts, o, [e EXCEPT !.remote_state = TRUE]),
                   ev |-> << DataSend(<< IAC, DO, o >>), Negotiation(WILL, o) >>]
             ELSE IF ~e.remote
             THEN [opts |-> opts, ev |-> << DataSend(<< IAC, DONT, o >>) >>]
             ELSE [opts |-> opts, ev |-> <<>>]
        [] command = WONT ->
             IF e.remote_state
             THEN [opts |-> set_option(opts, o, [e EXCEPT !.remote_state = FALSE]),
                   ev |-> << DataSend(<< IAC, DONT, o >>), Negotiation(WONT, o) >>]
             ELSE [opts |-> opts, ev |-> << Negotiation(WONT, o) >>]
        [] command = DO ->
             IF e.local /\ ~e.local_state
             THEN [opts |-> set_option(opts, o, [e EXCEPT !.local_state = TRUE]),
                   ev |-> << DataSend(<< IAC, WILL, o >>), Negotiation(DO, o) >>]
             ELSE IF ~e.local
             THEN [opts |-> opts, ev |-> << DataSend(<< IAC, WONT, o >>) >>]
             ELSE [opts |-> opts, ev |-> <<>>]
        [] command = DONT ->
             IF e.local_state
             THEN [opts |-> set_option(opts, o, [e EXCEPT !.local_state = FALSE]),
                   ev |-> << DataSend(<< IAC, WONT, o >>), Negotiation(DONT, o) >>]
             ELSE [opts |-> opts, ev |-> << Negotiation(DONT, o) >>]

\* one byte through the parser: [p, ev]
ParserByte(p, b) ==
  CASE p.mode = "Normal" ->
         IF b = IAC
         THEN [p |-> [p EXCEPT !.mode = "IAC"], ev |-> <<>>]
         ELSE [p |-> p, ev |-> << DataReceive(<< b >>) >>]
    [] p.mode = "IAC" ->
         IF b = IAC
         THEN [p |-> [p EXCEPT !.mode = "Normal"], ev |-> << DataReceive(<< IAC >>) >>]
         ELSE IF b \in { WILL, WONT, DO, DONT }
         THEN [p |-> [p EXCEPT !.mode = "Neg", !.command = b], ev |-> <<>>]
         ELSE IF b = SB
         THEN [p |-> [p EXCEPT !.mode = "Sub", !.sub = <<>>], ev |-> <<>>]
         ELSE [p |-> [p EXCEPT !.mode = "Normal"], ev |-> << IacEvent(b) >>]
    [] p.mode = "Neg" ->
         LET r == OnNegotiation(p.opts, p.command, b)
         IN  [p |-> ParserRec(r.opts, "Normal", 0, <<>>), ev |-> r.ev]
    [] p.mode = "Sub" ->
         IF b = IAC
         THEN [p |-> [p EXCEPT !.mode = "SubIAC"], ev |-> <<>>]
         ELSE [p |-> [p EXCEPT !.sub = Append(p.sub, b)], ev |-> <<>>]
    [] p.mode = "SubIAC" ->
         IF b = SE
         THEN LET e == IF p.sub = <<>> THEN Entry(FALSE, FALSE, FALSE, FALSE)
                       ELSE get_option(p.opts, p.sub[1])
              IN  [p |-> ParserRec(p.opts, "Normal", 0, <<>>),
                   ev |-> IF p.sub # <<>> /\ e.local /\ e.local_state
                          THEN << Subnegotiation(p.sub[1], Tail(p.sub)) >>
                          ELSE <<>>]
         ELSE [p |-> [p EXCEPT !.mode = "Sub", !.sub = Append(p.sub, b)], ev |-> <<>>]

\* Parser::receive: every byte in turn, the events collected in ev; [p, ev].
\* (The result of each byte is bound once, as a value, before the next.)
RECURSIVE ReceiveBytes(_, _, _)
ReceiveBytes(p, ev, bytes) ==
  IF bytes = <<>> THEN [p |-> p, ev |-> ev]
  ELSE CHOOSE out \in { ReceiveBytes(one.p, ev \o one.ev, Tail(bytes)) :
                          one \in { ParserByte(p, Head(bytes)) } } : TRUE

parser_receive(p, bytes) == ReceiveBytes(p, <<>>, bytes)

\* Parser::escape_iac: an IAC is inserted before every IAC of the payload
RECURSIVE escape_iac(_)
escape_iac(data) ==
  IF data = <<>> THEN <<>>
  ELSE IF Head(data) = IAC THEN << IAC, IAC >> \o escape_iac(Tail(data))
  ELSE << Head(data) >> \o escape_iac(Tail(data))

(***************************************************************************)
(* tn3270.rs: Session.  A session value is the record                      *)
(*   [parser, term_type, is_eor, is_bin, incoming_records, cur_record]     *)
(* with term_type = [some, v] for Option<Vec<u8>>.  The stream is kept in  *)
(* variables of its own.                                                   *)
(***************************************************************************)
NoTermType == [some |-> FALSE, v |-> <<>>]

SomeTermType(v) == [some |-> TRUE, v |-> v]

\* the struct literal and the four support calls of Session::new
NewSession ==
  [parser |-> ParserRec(
                [o \in Options |->
                   \* support(EOR), support_remote(TTYPE), support(TTYPE), support(BINARY)
                   Entry(TRUE, TRUE, FALSE, FALSE)],
                "Normal", 0, <<>>),
   term_type |-> NoTermType,
   is_eor |-> FALSE,
   is_bin |-> FALSE,
   incoming_records |-> <<>>,
   cur_record |-> <<>>]

\* Session::option_state
option_state(s, o) ==
  LET e == get_option(s.parser.opts, o)
  IN  e.local_state /\ e.remote_state

\* Session::is_ready
is_ready(s) == s.term_type.some /\ s.is_bin /\ s.is_eor

\* the four negotiations with each DO put before its WILL
StartEorBinary_do_first(opts) ==
  LET a == parser_do(opts, OPT_EOR)
      b == parser_will(a.opts, OPT_EOR)
      c == parser_do(b.opts, OPT_BINARY)
      d == parser_will(c.opts, OPT_BINARY)
  IN  [opts |-> d.opts, ev |-> a.ev \o b.ev \o c.ev \o d.ev]

\* the four negotiations of the TTYPE IS arm, in array order:
\* [_will(EOR), _do(EOR), _will(BINARY), _do(BINARY)] flattened; [opts, ev]
StartEorBinary(opts) ==
  LET a == parser_will(opts, OPT_EOR)
      b == parser_do(a.opts, OPT_EOR)
      c == parser_will(b.opts, OPT_BINARY)
      d == parser_do(c.opts, OPT_BINARY)
  IN  [opts |-> d.opts, ev |-> a.ev \o b.ev \o c.ev \o d.ev]

\* the arms of the match in process_events, each on the state
\*   [s, sendbuf, extra, panic, initiated]
\* where initiated records, per arm that pushes to extra_events, the
\* messages it pushed (history, not read by the code)
Sent(ev) == [i \in 1..Len(ev) |-> ev[i].data]

Initiate(st, ev) ==
  IF ev = <<>> THEN st.initiated ELSE Append(st.initiated, Sent(ev))

\* DataSend(data) => sendbuf.append(data)
OnDataSend(st, event) == [st EXCEPT !.sendbuf = st.sendbuf \o event.data]

\* DataReceive that overwrites the accumulator instead of appending to it
OnDataReceive_overwrite(st, event) == [st EXCEPT !.s.cur_record = event.data]

\* DataReceive(data) => self.cur_record.append(data)
OnDataReceive(st, event) ==
  [st EXCEPT !.s.cur_record = st.s.cur_record \o event.data]

\* IAC(EOR) that clears the accumulator and queues nothing
OnIacEor_drop(st) == [st EXCEPT !.s.cur_record = <<>>]

\* IAC(EOR) that queues the record and keeps the accumulator
OnIacEor_keep(st) ==
  [st EXCEPT !.s.incoming_records = Append(st.s.incoming_records, st.s.cur_record)]

\* IAC(EOR) => incoming_records.push_back(mem::replace(&mut cur_record, Vec::new()))
OnIacEor(st) ==
  [st EXCEPT !.s.incoming_records = Append(st.s.incoming_records, st.s.cur_record),
             !.s.cur_record = <<>>]

\* Negotiation(WILL, TTYPE): ask for the terminal type
OnWillTtype(st) ==
  LET sub == parser_subnegotiation(st.s.parser.opts, OPT_TTYPE, << 1 >>)
  IN  [st EXCEPT !.extra = st.extra \o sub,
                 !.initiated = Initiate(st, sub)]

\* any other Negotiation: refresh the cached readiness bits
OnOtherNegotiation(st) ==
  [st EXCEPT !.s.is_eor = option_state(st.s, OPT_EOR),
             !.s.is_bin = option_state(st.s, OPT_BINARY)]

\* Subnegotiation(TTYPE, buffer) that takes SEND (1) for IS (0)
OnTtypeSubnegotiation_send(st, event) ==
  IF event.data = <<>> THEN [st EXCEPT !.panic = TRUE]
  ELSE IF event.data[1] = 1
  THEN LET n == StartEorBinary(st.s.parser.opts)
       IN  [st EXCEPT !.s.term_type = SomeTermType(Tail(event.data)),
                      !.s.parser.opts = n.opts,
                      !.extra = st.extra \o n.ev,
                      !.initiated = Initiate(st, n.ev)]
  ELSE st

\* Subnegotiation(TTYPE, buffer)
OnTtypeSubnegotiation(st, event) ==
  \* buffer[0] of an empty buffer
  IF event.data = <<>> THEN [st EXCEPT !.panic = TRUE]
  ELSE IF event.data[1] = 0
  THEN LET n == StartEorBinary(st.s.parser.opts)
       IN  [st EXCEPT !.s.term_type = SomeTermType(Tail(event.data)),
                      !.s.parser.opts = n.opts,
                      !.extra = st.extra \o n.ev,
                      !.initiated = Initiate(st, n.ev)]
  ELSE st

\* the match, its arms in source order
OnEvent(st, event) ==
  CASE event.kind = "DataSend" -> OnDataSend(st, event)
    [] event.kind = "DataReceive" -> OnDataReceive(st, event)
    [] event.kind = "IAC" /\ event.command = EOR -> OnIacEor(st)
    [] event.kind = "IAC" /\ event.command # EOR -> st
    [] event.kind = "Negotiation" /\ event.command = WILL /\ event.option = OPT_TTYPE ->
         OnWillTtype(st)
    [] event.kind = "Negotiation"
         /\ ~(event.command = WILL /\ event.option = OPT_TTYPE) ->
         OnOtherNegotiation(st)
    [] event.kind = "Subnegotiation" /\ event.option = OPT_TTYPE ->
         OnTtypeSubnegotiation(st, event)
    [] event.kind = "Subnegotiation" /\ event.option # OPT_TTYPE -> st

\* for mut event in events.drain(..)
\* (The state after each event is bound once, as a value, before the next.)
RECURSIVE DrainEvents(_, _)
DrainEvents(st, events) ==
  IF events = <<>> \/ st.panic THEN st
  ELSE CHOOSE out \in { DrainEvents(nxt, Tail(events)) :
                          nxt \in { OnEvent(st, Head(events)) } } : TRUE

\* while !events.is_empty() || !extra_events.is_empty()
RECURSIVE EventLoop(_, _)
EventLoop(st, events) ==
  IF st.panic \/ (events = <<>> /\ st.extra = <<>>) THEN st
  ELSE CHOOSE out \in { EventLoop(after, <<>>) :
                          after \in { DrainEvents([st EXCEPT !.extra = <<>>],
                                                  events \o st.extra) } } : TRUE

\* Session::process_events: [s, sendbuf, extra, panic, initiated]; sendbuf is what
\* write_all puts on the stream
process_events(s, events) ==
  CHOOSE out \in { EventLoop(st, ev) :
                     st \in { [s |-> s, sendbuf |-> <<>>, extra |-> <<>>,
                               panic |-> FALSE, initiated |-> <<>>] },
                     ev \in { events } } : TRUE

\* parser.receive(&buf[..len]) followed by process_events(events)
ReceiveAndProcess(s, bytes) ==
  CHOOSE out \in { process_events([s EXCEPT !.parser = r.p], r.ev) :
                     r \in { parser_receive(s.parser, bytes) } } : TRUE

\* the initial negotiation of Session::negotiate: _do(TTYPE), _will(TTYPE)
InitialNegotiation(s) ==
  LET a == parser_do(s.parser.opts, OPT_TTYPE)
      b == parser_will(a.opts, OPT_TTYPE)
  IN  process_events([s EXCEPT !.parser.opts = b.opts], a.ev \o b.ev)

\* send_record without the escaping of the payload
send_record_unescaped(record) == record \o << IAC, EOR >>

\* Session::send_record: the bytes write_all puts on the stream
send_record(record) == escape_iac(record) \o << IAC, EOR >>

\* a pop that hands out the front and leaves it in the queue
pop_front_keep(q) ==
  IF q = <<>> THEN [some |-> FALSE, rec |-> <<>>, rest |-> <<>>]
  ELSE [some |-> TRUE, rec |-> Head(q), rest |-> q]

\* a pop from the back of the queue
pop_back(q) ==
  IF q = <<>> THEN [some |-> FALSE, rec |-> <<>>, rest |-> <<>>]
  ELSE [some |-> TRUE, rec |-> q[Len(q)], rest |-> SubSeq(q, 1, Len(q) - 1)]

\* incoming_records.pop_front(): [some, rec, rest]
pop_front(q) ==
  IF q = <<>> THEN [some |-> FALSE, rec |-> <<>>, rest |-> <<>>]
  ELSE [some |-> TRUE, rec |-> Head(q), rest |-> Tail(q)]

(***************************************************************************)
(* State.                                                                  *)
(***************************************************************************)
VARIABLES
  \* the codec: a WriteCommand the application serializes, the bytes of a
  \* record, the result of parse_record, and the place in that pipeline
  cmd, wire, parsed, cpc,
  \* the Session struct and its TcpStream: the bytes the peer's side has made
  \* readable, the bytes written, the read timeout and the blocking mode
  session, rx, tx, read_timeout, nonblocking,
  \* the place in Session::new / receive_record, and what they returned
  pc, neg_result, new_result, rr_timeout, rr_result,
  \* the peer: whether its side is open, the bytes in flight towards rx, the
  \* number of bytes or messages it has sent, whether it is inside an IAC
  \* sequence, the record it is sending, and the records it has completed
  peer_open, script, peer_sent, peer_mid, peer_cur, wire_records,
  \* the payloads given to send_record and the records receive_record returned
  sent_payloads, delivered,
  \* the messages the session's own code has started, per arm of
  \* process_events that started them (history)
  initiated,
  \* a call of one of the pure functions: its name, argument and result
  fn_name, fn_in, fn_out,
  \* Screen::present: the screen's fields, the fields as they were when
  \* present was called, the place in present, and what each call returned
  fields, fields0, spc, outcomes

codecVars == << cmd, wire, parsed, cpc >>

sessVars == << session, rx, tx, read_timeout, nonblocking, pc, neg_result,
               new_result, rr_timeout, rr_result >>

peerVars == << peer_open, script, peer_sent, peer_mid, peer_cur, wire_records >>

ghostVars == << sent_payloads, delivered >>

fnVars == << fn_name, fn_in, fn_out >>

screenVars == << fields, fields0, spc, outcomes >>

vars == << codecVars, sessVars, peerVars, ghostVars, initiated, fnVars, screenVars >>

(***************************************************************************)
(* More bounds.                                                            *)
(***************************************************************************)
\* messages the peer may send while Session::new negotiates
MaxPeerMsgs == 4
\* bytes the peer may send to an established session
MaxPeerBytes == 5
\* longest payload given to send_record
MaxPayload == 3
\* calls of send_record
MaxSends == 1

(***************************************************************************)
(* The codec pipeline.                                                     *)
(***************************************************************************)
NoCmd == [command |-> "none", wcc |-> 0, orders |-> <<>>]

NoParse == ParseResult("none", "none", "Invalid", 0, 0, <<>>, 0)

FA(bits) == Efa("FieldAttribute", bits, "")

\* the attributes, orders and commands the application is seen to build
SampleAttrs ==
  { FA(32), FA(0), FA(1), Efa("ForegroundColor", 0, "Red"),
    Efa("ExtendedHighlighting", 0, "Blink") }

SampleOrders ==
  { StartField(32), StartField(0), StartField(8),
    StartFieldExtended(<< FA(32) >>),
    StartFieldExtended(<< FA(0), Efa("ForegroundColor", 0, "Red") >>),
    SetBufferAddress(0), SetBufferAddress(201), SetBufferAddress(1919),
    ModifyField(<< Efa("BackgroundColor", 0, "Blue") >>),
    InsertCursor(5), ProgramTab, RepeatToAddress(100, 65),
    EraseUnprotectedToAddress(1919), GraphicEscape(193),
    SendText(<< 65 >>), SendText(<< 72, 105 >>) }
  \cup { SetAttribute(a) : a \in SampleAttrs }

SampleCommands(n) ==
  { [command |-> c, wcc |-> w, orders |-> os] :
      c \in { "Write", "EraseWrite" }, w \in { 3, 67 },
      os \in SeqsUpTo(SampleOrders, n) }

\* the records a client is seen to send: a header and a tail of order bytes
FuzzBytes == { 0, 1, 2, 5, 8, 17, 18, 19, 29, 40, 41, 44, 60, 64, 66, 128, 192, 193 }

SampleHeaders == { << 125, 0, 0 >>, << 1, 0, 0 >>, << 125, 128, 0 >>, << 125, 75, 212 >> }

SampleRecords(n) ==
  { h \o t : h \in SampleHeaders, t \in SeqsUpTo(FuzzBytes, n) }
  \cup { <<>>, << 125 >>, << 125, 0 >>,
         << 125, 75, 212, 17, 0, 201, 193, 211, 201, 195, 197 >>,
         << 125, 0, 0, 60, 0, 5, 193, 193 >>,
         << 125, 0, 0, 60, 0, 5, 193, 194 >>,
         << 125, 0, 0, 41, 1, 1, 0 >>, << 125, 0, 0, 5, 44, 1, 66, 1 >>,
         << 125, 0, 0, 41, 2, 192, 32, 66, 242 >> }

\* impl Into<Vec<u8>> for &WriteCommand: the application serializes a command
Serialize ==
  /\ cpc = "idle"
  /\ \E c \in SampleCommands(MaxOrders) :
       /\ \A i \in 1..Len(c.orders) : ~WriteOrder_serialize_panics(c.orders[i])
       /\ cmd' = c
       /\ wire' = WriteCommand_serialize(c)
  /\ cpc' = "out"
  /\ UNCHANGED << parsed, sessVars, peerVars, ghostVars >>
  /\ UNCHANGED << fnVars, screenVars, initiated >>

\* the order bytes of the serialized command come back as the order part of
\* an inbound record (AID Enter, cursor address 0)
Echo ==
  /\ cpc = "out"
  /\ wire' = << 125, 0, 0 >> \o Drop(wire, 2)
  /\ cpc' = "in"
  /\ UNCHANGED << cmd, parsed, sessVars, peerVars, ghostVars >>
  /\ UNCHANGED << fnVars, screenVars, initiated >>

\* a record of the client reaches the codec
ClientRecord ==
  /\ cpc = "idle"
  /\ \E r \in SampleRecords(MaxTail) : wire' = r
  /\ cpc' = "in"
  /\ UNCHANGED << cmd, parsed, sessVars, peerVars, ghostVars >>
  /\ UNCHANGED << fnVars, screenVars, initiated >>

\* IncomingRecord::parse_record on the record
Parse ==
  /\ cpc = "in"
  /\ parsed' = parse_record(wire)
  /\ cpc' = "parsed"
  /\ UNCHANGED << cmd, wire, sessVars, peerVars, ghostVars >>
  /\ UNCHANGED << fnVars, screenVars, initiated >>

(***************************************************************************)
(* Session::new and Session::negotiate.  pc is                             *)
(*   "new"       Session::new has built the struct and calls negotiate,    *)
(*   "neg_read"  negotiate is at the read of its loop,                     *)
(*   "app"       the application holds the session (no call in progress),  *)
(*   "failed"    Session::new returned Err,                                *)
(*   "rr_first"  receive_record is at its first read,                      *)
(*   "rr_drain"  receive_record is at a read of its drain loop,            *)
(*   "panicked"  a handler panicked.                                        *)
(***************************************************************************)
\* idata of negotiate and buf of receive_record
NegBufLen == 2000

RecvBufLen == 1024

NoResult == [kind |-> "none", rec |-> <<>>]

\* stream.read(&mut buf): what is readable, up to the buffer's length
ReadLen(n) == Min(Len(rx), n)

\* negotiate up to its loop: the initial DO TTYPE / WILL TTYPE is written, the
\* read timeout set, and the session is not ready, so the loop is entered
NegotiateBegin ==
  /\ pc = "new"
  /\ \E r \in { InitialNegotiation(session) } :
         /\ session' = r.s
         \* write_all is the last statement: a panic before it writes nothing
         /\ tx' = IF r.panic THEN tx ELSE tx \o r.sendbuf
         /\ initiated' = initiated \o r.initiated
         /\ read_timeout' = "5s"
         /\ IF is_ready(r.s)
            THEN /\ pc' = "app"
                 /\ neg_result' = "OkTrue"
                 /\ new_result' = "OkSession"
            ELSE /\ pc' = "neg_read"
                 /\ UNCHANGED << neg_result, new_result >>
  /\ UNCHANGED << rx, nonblocking, rr_timeout, rr_result >>
  /\ UNCHANGED << codecVars, peerVars, ghostVars >>
  /\ UNCHANGED << fnVars, screenVars >>

\* one pass of the loop with len > 0; on leaving the loop negotiate clears
\* the timeout and returns Ok(true), and Session::new returns Ok(session)
NegotiateRead ==
  /\ pc = "neg_read"
  /\ rx # <<>>
  /\ \E r \in { ReceiveAndProcess(session, Take(rx, ReadLen(NegBufLen))) } :
         /\ rx' = Drop(rx, ReadLen(NegBufLen))
         /\ session' = r.s
         \* write_all is the last statement: a panic before it writes nothing
         /\ tx' = IF r.panic THEN tx ELSE tx \o r.sendbuf
         /\ initiated' = initiated \o r.initiated
         /\ IF r.panic
            THEN /\ pc' = "panicked"
                 /\ UNCHANGED << read_timeout, neg_result, new_result >>
            ELSE IF is_ready(r.s)
            THEN /\ pc' = "app"
                 /\ read_timeout' = "None"
                 /\ neg_result' = "OkTrue"
                 /\ new_result' = "OkSession"
            ELSE /\ pc' = "neg_read"
                 /\ UNCHANGED << read_timeout, neg_result, new_result >>
  /\ UNCHANGED << nonblocking, rr_timeout, rr_result >>
  /\ UNCHANGED << codecVars, peerVars, ghostVars >>
  /\ UNCHANGED << fnVars, screenVars >>

\* the read returns 0 (the peer closed): negotiate returns Ok(false); the `?'
\* of Session::new passes every Ok, so Session::new returns Ok(session)
NegotiateEof ==
  /\ pc = "neg_read"
  /\ rx = <<>>
  /\ ~peer_open
  /\ neg_result' = "OkFalse"
  /\ new_result' = "OkSession"
  /\ pc' = "app"
  /\ UNCHANGED << session, rx, tx, read_timeout, nonblocking, rr_timeout, rr_result >>
  /\ UNCHANGED << codecVars, peerVars, ghostVars >>
  /\ UNCHANGED << fnVars, screenVars, initiated >>

\* the read times out after 5 s: negotiate and Session::new return the error
NegotiateTimeout ==
  /\ pc = "neg_read"
  /\ rx = <<>>
  /\ peer_open
  /\ neg_result' = "Err"
  /\ new_result' = "Err"
  /\ pc' = "failed"
  /\ UNCHANGED << session, rx, tx, read_timeout, nonblocking, rr_timeout, rr_result >>
  /\ UNCHANGED << codecVars, peerVars, ghostVars >>
  /\ UNCHANGED << fnVars, screenVars, initiated >>

(***************************************************************************)
(* Session::send_record and Session::receive_record.                       *)
(***************************************************************************)
SendPayloadBytes == { 65, 255 }

\* send_record(p) for some payload p: the framed bytes are written; they are
\* also in flight to whoever receives them
SendRecord ==
  /\ pc = "app"
  /\ Len(sent_payloads) < MaxSends
  /\ \E p \in SeqsUpTo(SendPayloadBytes, MaxPayload) :
       /\ tx' = tx \o send_record(p)
       /\ script' = script \o send_record(p)
       /\ sent_payloads' = Append(sent_payloads, p)
  /\ UNCHANGED << session, rx, read_timeout, nonblocking, pc, neg_result,
                  new_result, rr_timeout, rr_result >>
  /\ UNCHANGED << peer_open, peer_sent, peer_mid, peer_cur, wire_records, delivered >>
  /\ UNCHANGED codecVars
  /\ UNCHANGED << fnVars, screenVars, initiated >>

\* receive_record(timeout) up to its first read: a queued record is returned
\* at once; otherwise the timeout is set and the read is entered
ReceiveRecordCall(t) ==
  /\ pc = "app"
  /\ rr_timeout' = t
  /\ IF session.incoming_records # <<>>
     THEN LET r == pop_front(session.incoming_records)
          IN  /\ rr_result' = [kind |-> "Some", rec |-> r.rec]
              /\ delivered' = Append(delivered, r.rec)
              /\ session' = [session EXCEPT !.incoming_records = r.rest]
              /\ UNCHANGED << pc, read_timeout >>
     ELSE /\ read_timeout' = t
          /\ pc' = "rr_first"
          /\ rr_result' = NoResult
          /\ UNCHANGED << session, delivered >>
  /\ UNCHANGED << rx, tx, nonblocking, neg_result, new_result >>
  /\ UNCHANGED << codecVars, peerVars, sent_payloads >>
  /\ UNCHANGED << fnVars, screenVars, initiated >>

\* the first read returns len > 0: non-blocking mode is set and the bytes are
\* parsed and processed; the next read is the drain loop's
RRFirstRead ==
  /\ pc = "rr_first"
  /\ rx # <<>>
  /\ \E r \in { ReceiveAndProcess(session, Take(rx, ReadLen(RecvBufLen))) } :
         /\ rx' = Drop(rx, ReadLen(RecvBufLen))
         /\ session' = r.s
         \* write_all is the last statement: a panic before it writes nothing
         /\ tx' = IF r.panic THEN tx ELSE tx \o r.sendbuf
         /\ initiated' = initiated \o r.initiated
         /\ pc' = IF r.panic THEN "panicked" ELSE "rr_drain"
  /\ nonblocking' = TRUE
  /\ UNCHANGED << read_timeout, neg_result, new_result, rr_timeout, rr_result >>
  /\ UNCHANGED << codecVars, peerVars, ghostVars >>
  /\ UNCHANGED << fnVars, screenVars >>

\* the first read returns 0 (the peer closed): the timeout is cleared and
\* Ok(pop_front()) is returned
RRFirstEof ==
  /\ pc = "rr_first"
  /\ rx = <<>>
  /\ ~peer_open
  /\ read_timeout' = "None"
  /\ LET r == pop_front(session.incoming_records)
     IN  /\ rr_result' = [kind |-> IF r.some THEN "Some" ELSE "None", rec |-> r.rec]
         /\ delivered' = IF r.some THEN Append(delivered, r.rec) ELSE delivered
         /\ session' = [session EXCEPT !.incoming_records = r.rest]
  /\ pc' = "app"
  /\ UNCHANGED << rx, tx, nonblocking, neg_result, new_result, rr_timeout >>
  /\ UNCHANGED << codecVars, peerVars, sent_payloads >>
  /\ UNCHANGED << fnVars, screenVars, initiated >>

\* the first read times out: the error is returned by `?'
RRFirstTimeout ==
  /\ pc = "rr_first"
  /\ rx = <<>>
  /\ peer_open
  /\ read_timeout = "Some"
  /\ rr_result' = [kind |-> "Err", rec |-> <<>>]
  /\ pc' = "app"
  /\ UNCHANGED << session, rx, tx, read_timeout, nonblocking, neg_result,
                  new_result, rr_timeout >>
  /\ UNCHANGED << codecVars, peerVars, ghostVars >>
  /\ UNCHANGED << fnVars, screenVars, initiated >>

\* a read of the drain loop returns len > 0: parse, process, read again
RRDrainRead ==
  /\ pc = "rr_drain"
  /\ rx # <<>>
  /\ \E r \in { ReceiveAndProcess(session, Take(rx, ReadLen(RecvBufLen))) } :
         /\ rx' = Drop(rx, ReadLen(RecvBufLen))
         /\ session' = r.s
         \* write_all is the last statement: a panic before it writes nothing
         /\ tx' = IF r.panic THEN tx ELSE tx \o r.sendbuf
         /\ initiated' = initiated \o r.initiated
         /\ pc' = IF r.panic THEN "panicked" ELSE "rr_drain"
  /\ UNCHANGED << read_timeout, nonblocking, neg_result, new_result,
                  rr_timeout, rr_result >>
  /\ UNCHANGED << codecVars, peerVars, ghostVars >>
  /\ UNCHANGED << fnVars, screenVars >>

\* a read of the drain loop fails with an error other than WouldBlock (the
\* peer has reset the connection): `Err(err) => return Err(err)'
RRDrainError ==
  /\ pc = "rr_drain"
  /\ rx = <<>>
  /\ ~peer_open
  /\ rr_result' = [kind |-> "Err", rec |-> <<>>]
  /\ pc' = "app"
  /\ UNCHANGED << session, rx, tx, read_timeout, nonblocking, neg_result,
                  new_result, rr_timeout >>
  /\ UNCHANGED << codecVars, peerVars, ghostVars >>
  /\ UNCHANGED << fnVars, screenVars, initiated >>

\* a read of the drain loop finds nothing (WouldBlock, or 0 after a close):
\* blocking mode is restored, the timeout cleared, Ok(pop_front()) returned
RRDrainDone ==
  /\ pc = "rr_drain"
  /\ rx = <<>>
  /\ nonblocking' = FALSE
  /\ read_timeout' = "None"
  /\ LET r == pop_front(session.incoming_records)
     IN  /\ rr_result' = [kind |-> IF r.some THEN "Some" ELSE "None", rec |-> r.rec]
         /\ delivered' = IF r.some THEN Append(delivered, r.rec) ELSE delivered
         /\ session' = [session EXCEPT !.incoming_records = r.rest]
  /\ pc' = "app"
  /\ UNCHANGED << rx, tx, neg_result, new_result, rr_timeout >>
  /\ UNCHANGED << codecVars, peerVars, sent_payloads >>
  /\ UNCHANGED << fnVars, screenVars, initiated >>

(***************************************************************************)
(* The peer.                                                               *)
(***************************************************************************)
\* "IBM-3278-2"
TermTypeName == << 73, 66, 77, 45, 51, 50, 55, 56, 45, 50 >>

MsgWillTtype  == << IAC, WILL, OPT_TTYPE >>

MsgTtypeIs(n) == << IAC, SB, OPT_TTYPE, 0 >> \o n \o << IAC, SE >>

MsgTtypeEmpty == << IAC, SB, OPT_TTYPE, IAC, SE >>

\* the scripted peer of the negotiation property
Script ==
  MsgWillTtype \o MsgTtypeIs(TermTypeName)
    \o << IAC, DO, OPT_EOR >> \o << IAC, WILL, OPT_EOR >>
    \o << IAC, DO, OPT_BINARY >> \o << IAC, WILL, OPT_BINARY >>

\* what an unscripted peer may send while the server negotiates
NegMsgs ==
  { MsgWillTtype, MsgTtypeIs(<< 65 >>), MsgTtypeEmpty,
    << IAC, DO, OPT_EOR >>, << IAC, WILL, OPT_EOR >>,
    << IAC, DO, OPT_BINARY >>, << IAC, WILL, OPT_BINARY >>,
    << IAC, WONT, OPT_EOR >> }

PeerSend ==
  /\ peer_open
  /\ pc \in { "new", "neg_read" }
  /\ peer_sent < MaxPeerMsgs
  /\ \E m \in NegMsgs : rx' = rx \o m
  /\ peer_sent' = peer_sent + 1
  /\ UNCHANGED << session, tx, read_timeout, nonblocking, pc, neg_result,
                  new_result, rr_timeout, rr_result >>
  /\ UNCHANGED << peer_open, script, peer_mid, peer_cur, wire_records >>
  /\ UNCHANGED << codecVars, ghostVars >>
  /\ UNCHANGED << fnVars, screenVars, initiated >>

PeerClose ==
  /\ peer_open
  /\ pc \in { "new", "neg_read", "app", "rr_first", "rr_drain" }
  /\ peer_open' = FALSE
  /\ UNCHANGED << script, peer_sent, peer_mid, peer_cur, wire_records >>
  /\ UNCHANGED << codecVars, sessVars, ghostVars >>
  /\ UNCHANGED << fnVars, screenVars, initiated >>

\* bytes in flight arrive, k at a time
PeerDeliver(k) ==
  /\ k \in 1..Len(script)
  /\ rx' = rx \o Take(script, k)
  /\ script' = Drop(script, k)
  /\ UNCHANGED << session, tx, read_timeout, nonblocking, pc, neg_result,
                  new_result, rr_timeout, rr_result >>
  /\ UNCHANGED << peer_open, peer_sent, peer_mid, peer_cur, wire_records >>
  /\ UNCHANGED << codecVars, ghostVars >>
  /\ UNCHANGED << fnVars, screenVars, initiated >>

\* the peer of an established session sends one byte at a time; peer_cur is
\* the record it is sending and wire_records the records it has completed
PeerStep(b, mid, cur, recs) ==
  /\ peer_open
  /\ pc \in { "app", "rr_first", "rr_drain" }
  /\ peer_sent < MaxPeerBytes
  /\ rx' = Append(rx, b)
  /\ peer_sent' = peer_sent + 1
  /\ peer_mid' = mid
  /\ peer_cur' = cur
  /\ wire_records' = recs
  /\ UNCHANGED << session, tx, read_timeout, nonblocking, pc, neg_result,
                  new_result, rr_timeout, rr_result >>
  /\ UNCHANGED << peer_open, script >>
  /\ UNCHANGED << codecVars, ghostVars >>
  /\ UNCHANGED << fnVars, screenVars, initiated >>

PeerDataBytes == { 65 }

\* a data byte other than IAC
PeerData(b) == ~peer_mid /\ PeerStep(b, FALSE, Append(peer_cur, b), wire_records)

\* the IAC that opens a sequence
PeerIac == ~peer_mid /\ PeerStep(IAC, TRUE, peer_cur, wire_records)

\* IAC IAC: a data byte 0xFF
PeerIacIac == peer_mid /\ PeerStep(IAC, FALSE, Append(peer_cur, IAC), wire_records)

\* IAC EOR: the record is complete
PeerEor == peer_mid /\ PeerStep(EOR, FALSE, <<>>, Append(wire_records, peer_cur))

\* IAC NOP
PeerNop == peer_mid /\ PeerStep(NOP, FALSE, peer_cur, wire_records)

(***************************************************************************)
(* Specifications.                                                         *)
(***************************************************************************)
CodecIdle == cmd = NoCmd /\ wire = <<>> /\ parsed = NoParse /\ cpc = "idle"

PeerFresh ==
  /\ peer_open = TRUE /\ script = <<>> /\ peer_sent = 0
  /\ peer_mid = FALSE /\ peer_cur = <<>> /\ wire_records = <<>>

GhostFresh == sent_payloads = <<>> /\ delivered = <<>> /\ initiated = <<>>

NoCall == [kind |-> "none"]

\* no pure function has been called
FnIdle == fn_name = "none" /\ fn_in = <<>> /\ fn_out = NoCall

\* no screen is being presented
NoScreen == fields = <<>> /\ fields0 = <<>> /\ spc = "idle" /\ outcomes = <<>>

\* Session::new has built the struct on a connected stream
SessionFresh ==
  /\ session = NewSession /\ rx = <<>> /\ tx = <<>>
  /\ read_timeout = "None" /\ nonblocking = FALSE
  /\ pc = "new" /\ neg_result = "none" /\ new_result = "none"
  /\ rr_timeout = "None" /\ rr_result = NoResult

\* the session Session::new returns after the scripted negotiation; tx then
\* counts the bytes written from here on
Established ==
  ReceiveAndProcess(InitialNegotiation(NewSession).s, Script).s

SessionEstablished ==
  /\ session = Established /\ rx = <<>> /\ tx = <<>>
  /\ read_timeout = "None" /\ nonblocking = FALSE
  /\ pc = "app" /\ neg_result = "OkTrue" /\ new_result = "OkSession"
  /\ rr_timeout = "None" /\ rr_result = NoResult

Timeouts == { "None", "Some" }

\* an established session and a peer that sends records
Init ==
  /\ CodecIdle /\ SessionEstablished /\ PeerFresh /\ GhostFresh
  /\ FnIdle /\ NoScreen

Next ==
  \/ \E t \in Timeouts : ReceiveRecordCall(t)
  \/ RRFirstRead
  \/ RRFirstEof
  \/ RRFirstTimeout
  \/ RRDrainRead
  \/ RRDrainDone
  \/ RRDrainError
  \/ \E b \in PeerDataBytes : PeerData(b)
  \/ PeerIac
  \/ PeerIacIac
  \/ PeerEor
  \/ PeerNop
  \/ PeerClose

Spec == Init /\ [][Next]_vars

\* Session::new against a peer that sends what it likes
InitNeg ==
  /\ CodecIdle /\ SessionFresh /\ PeerFresh /\ GhostFresh
  /\ FnIdle /\ NoScreen

NextNeg ==
  \/ NegotiateBegin
  \/ NegotiateRead
  \/ NegotiateEof
  \/ NegotiateTimeout
  \/ PeerSend
  \/ PeerClose

SpecNeg == InitNeg /\ [][NextNeg]_vars

\* Session::new against the scripted peer, all of whose bytes arrive; a
\* blocking read returns once bytes are readable
InitScript ==
  /\ CodecIdle /\ SessionFresh /\ GhostFresh /\ FnIdle /\ NoScreen
  /\ peer_open = TRUE /\ script = Script /\ peer_sent = 0
  /\ peer_mid = FALSE /\ peer_cur = <<>> /\ wire_records = <<>>

NextScript ==
  \/ NegotiateBegin
  \/ NegotiateRead
  \/ \E k \in 1..Len(Script) : PeerDeliver(k)

SpecScript == InitScript /\ [][NextScript]_vars /\ WF_vars(NextScript)

\* an established session whose written records are fed back to it
NextFrame ==
  \/ SendRecord
  \/ \E k \in 1..(2 * MaxPayload + 2) : PeerDeliver(k)
  \/ \E t \in Timeouts : ReceiveRecordCall(t)
  \/ RRFirstRead
  \/ RRFirstTimeout
  \/ RRDrainRead
  \/ RRDrainDone

SpecFrame == Init /\ [][NextFrame]_vars

\* the codec on the commands of the application and the records of a client
NextCodec ==
  \/ Serialize
  \/ Echo
  \/ ClientRecord
  \/ Parse

SpecCodec == InitNeg /\ [][NextCodec]_vars

(***************************************************************************)
(* screen.rs: Screen::present.  A field is [row, col, attrs, rw, text]:     *)
(* rw tells FieldData::RW from FieldData::RO, text is the string it holds.  *)
(***************************************************************************)
Field(row, col, attrs, rw, text) ==
  [row |-> row, col |-> col, attrs |-> attrs, rw |-> rw, text |-> text]

\* FieldAttribute::PROTECTED
PROTECTED == 32

\* attr.set(FieldAttribute::PROTECTED, ro) on the bits of a FieldAttribute
SetProtected(bits, ro) ==
  LET has == (bits \div PROTECTED) % 2 = 1
  IN  IF ro THEN (IF has THEN bits ELSE bits + PROTECTED)
      ELSE (IF has THEN bits - PROTECTED ELSE bits)

\* the attribute list present sends for a field: PROTECTED is set to ro in
\* every FieldAttribute of the caller's list, and a FieldAttribute is put in
\* front if the list has none
field_attr(field) ==
  LET ro == ~field.rw
      set == [i \in 1..Len(field.attrs) |->
                IF field.attrs[i].typ = "FieldAttribute"
                THEN FA(SetProtected(field.attrs[i].bits, ro))
                ELSE field.attrs[i]]
      have_fa == \E i \in 1..Len(field.attrs) : field.attrs[i].typ = "FieldAttribute"
  IN  IF have_fa THEN set
      ELSE << FA(IF ro THEN PROTECTED ELSE 0) >> \o set

\* the closure of the flat_map: the four orders of a field
FieldOrders(field) ==
  << SetBufferAddress(encode_address(field.row, field.col)),
     StartFieldExtended(field_attr(field)),
     SendText(field.text),
     StartField(PROTECTED) >>

\* the WriteCommand present builds: EraseWrite, RESET_MDT | KBD_RESTORE
PresentCommand(fs) ==
  [command |-> "EraseWrite", wcc |-> 3,
   orders |-> Flatten([i \in 1..Len(fs) |-> FieldOrders(fs[i])])]

\* the SendText arm of the walk over the response: every read-write field
\* whose encoded address is incoming_addr - 1 takes the text
TakeText(fs, target, text) ==
  [i \in 1..Len(fs) |->
     IF encode_address(fs[i].row, fs[i].col) = target /\ fs[i].rw
     THEN [fs[i] EXCEPT !.text = text]
     ELSE fs[i]]

\* the walk over incoming.orders: [fields, addr, panic].  incoming_addr - 1
\* is computed once per field; at incoming_addr = 0 it panics where overflow
\* is checked and wraps otherwise.
RECURSIVE WalkOrders(_, _, _)
WalkOrders(st, orders, checked) ==
  IF orders = <<>> \/ st.panic THEN st
  ELSE LET o == Head(orders)
           nxt == CASE o.op = "SetBufferAddress" -> [st EXCEPT !.addr = o.addr]
                    [] o.op = "SendText" ->
                         IF st.addr = 0 /\ checked /\ Len(st.fields) > 0
                         THEN [st EXCEPT !.panic = TRUE]
                         ELSE [st EXCEPT !.fields =
                                 TakeText(st.fields, U16(st.addr + 65535), o.text)]
                    [] OTHER -> st
       IN  WalkOrders(nxt, Tail(orders), checked)

\* let mut incoming_addr = !0; for order in incoming.orders { ... }
ApplyResponse(fs, orders, checked) ==
  WalkOrders([fields |-> fs, addr |-> 65535, panic |-> FALSE], orders, checked)

\* what a call of present returned: Ok(Response) or Err(StreamError)
PresentOk(aid, addr) ==
  [st |-> "Ok", err |-> "none", aid |-> aid,
   row |-> decode_address(addr)[1], col |-> decode_address(addr)[2]]

PresentErr(e) == [st |-> "Err", err |-> e, aid |-> "Invalid", row |-> 0, col |-> 0]

\* responses the client may send
MaxResponses == 2

\* the fields and screens the application is seen to build
RoTitle   == Field(0, 0, <<>>, FALSE, << 72, 105 >>)

RwName    == Field(2, 40, << FA(0) >>, TRUE, <<>>)

RwColored == Field(2, 40, << Efa("ForegroundColor", 0, "Red") >>, TRUE, << 66 >>)

RoFlagged == Field(1, 0, << FA(1) >>, FALSE, << 65 >>)

RwTwice   == Field(1, 0, << FA(PROTECTED), FA(1) >>, TRUE, <<>>)

SampleScreens ==
  { << RoTitle, RwName >>, << RwColored >>, << RoFlagged, RwName >>,
    << RoTitle, RwTwice >>, << RwName, RoTitle >> }

\* the records the client is seen to answer with
SampleResponses ==
  { << 1, 0, 0 >>,
    << 125, 75, 212, 17, 0, 201, 193, 211, 201, 195, 197 >>,
    << 125, 0, 0, 17, 0, 201, 193, 5, 194 >>,
    << 125, 0, 0, 17, 0, 1, 193 >>,
    << 125, 0, 0, 17, 0, 0, 193 >>,
    << 125, 0, 0, 193 >> }

\* the application builds a screen
InitScreen ==
  /\ CodecIdle /\ SessionEstablished /\ PeerFresh /\ GhostFresh /\ FnIdle
  /\ fields \in SampleScreens
  /\ fields0 = <<>> /\ spc = "idle" /\ outcomes = <<>>

\* present up to its call of receive_record: the command is built from the
\* fields and sent as one record
PresentSend ==
  /\ pc = "app"
  /\ spc = "idle"
  /\ cmd' = PresentCommand(fields)
  /\ wire' = WriteCommand_serialize(PresentCommand(fields))
  /\ tx' = tx \o send_record(WriteCommand_serialize(PresentCommand(fields)))
  /\ sent_payloads' = Append(sent_payloads, WriteCommand_serialize(PresentCommand(fields)))
  /\ fields0' = fields
  /\ spc' = "sent"
  /\ rr_result' = NoResult
  /\ UNCHANGED << parsed, cpc, session, rx, read_timeout, nonblocking, pc,
                  neg_result, new_result, rr_timeout >>
  /\ UNCHANGED << peerVars, delivered, initiated, fnVars, fields, outcomes >>

\* session.receive_record(None), as present calls it
PresentReceive ==
  /\ spc = "sent"
  /\ rr_result = NoResult
  /\ ReceiveRecordCall("None")

\* present from the return of receive_record: unwrap, parse_record, the walk
\* over the orders, the Response
PresentApply ==
  /\ pc = "app"
  /\ spc = "sent"
  /\ rr_result.kind \in { "Some", "None" }
  /\ \E p \in { parse_record(rr_result.rec) }, checked \in BOOLEAN :
       \E w \in { ApplyResponse(fields, p.orders, checked) } :
         IF rr_result.kind = "None" \/ p.st = "Panic" \/ (p.st = "Ok" /\ w.panic)
         THEN /\ spc' = "panicked"
              /\ UNCHANGED << parsed, fields, outcomes >>
         ELSE /\ parsed' = p
              /\ spc' = "idle"
              /\ IF p.st = "Err"
                 THEN /\ outcomes' = Append(outcomes, PresentErr(p.err))
                      /\ UNCHANGED fields
                 ELSE /\ outcomes' = Append(outcomes, PresentOk(p.aid, p.addr))
                      /\ fields' = w.fields
  /\ UNCHANGED << cmd, wire, cpc, sessVars, peerVars, ghostVars, initiated,
                  fnVars, fields0 >>

\* the client answers with a whole record
PeerRespond ==
  /\ peer_open
  /\ pc \in { "app", "rr_first", "rr_drain" }
  /\ peer_sent < MaxResponses
  /\ \E r \in SampleResponses :
       /\ rx' = rx \o escape_iac(r) \o << IAC, EOR >>
       /\ wire_records' = Append(wire_records, r)
  /\ peer_sent' = peer_sent + 1
  /\ UNCHANGED << session, tx, read_timeout, nonblocking, pc, neg_result,
                  new_result, rr_timeout, rr_result >>
  /\ UNCHANGED << peer_open, script, peer_mid, peer_cur >>
  /\ UNCHANGED << codecVars, ghostVars, initiated, fnVars, screenVars >>

NextScreen ==
  \/ PresentSend
  \/ PresentReceive
  \/ RRFirstRead
  \/ RRDrainRead
  \/ RRDrainDone
  \/ PresentApply
  \/ PeerRespond

SpecScreen == InitScreen /\ [][NextScreen]_vars

(***************************************************************************)
(* The pure functions of stream.rs and encoding.rs, each applied once to   *)
(* an input drawn from its domain.  fn_name names the function, fn_in its  *)
(* argument and fn_out what it returned.                                    *)
(***************************************************************************)
MaxText == 3

\* characters as `ch as usize': NUL, LF, space, 'A', 'a', y-diaeresis, and two
\* scalars past the end of the 256-entry table (U+0100 and the euro sign)
SampleChars == { 0, 10, 32, 65, 97, 255, 256, 8364 }

SampleTexts == SeqsUpTo(SampleChars, MaxText)

\* spec example 3: AID Enter, cursor 4B D4, SBA 00 C9, "ALICE" in CP037
AliceReply == << 125, 75, 212, 17, 0, 201, 193, 211, 201, 195, 197 >>

\* AID bytes of a reply: Enter, PF1, NoAIDGenerated, and one undefined byte
ReplyAids == { 125, 241, 96, 0 }

\* encoded addresses: 12-bit with top bits 01 and 11, 14-bit, and top bits 10
ReplyAddrs == { << 75, 212 >>, << 195, 193 >>, << 0, 201 >>, << 128, 1 >> }

\* data bytes of a text run, all >= 0x40
ReplyText == { 64, 193, 255 }

ReplyRecord(a, c, s, t) == << a >> \o c \o << 17 >> \o s \o t

ReplyRecords ==
  { ReplyRecord(a, c, s, t) :
      a \in ReplyAids, c \in ReplyAddrs, s \in ReplyAddrs,
      t \in SeqsUpTo(ReplyText, MaxText) \ { <<>> } }
  \cup { AliceReply }

FnCall(name, in, out) ==
  /\ fn_name' = name
  /\ fn_in' = in
  /\ fn_out' = out
  /\ UNCHANGED << codecVars, sessVars, peerVars, ghostVars, initiated,
                  screenVars >>

\* parse_addr on a 2-byte slice, and decode_address on the address it gives
CallParseAddr ==
  /\ fn_name = "none"
  /\ \E b0 \in 0..255, b1 \in 0..255 :
       \E a \in { parse_addr(<< b0, b1 >>) } :
         FnCall("parse_addr", << b0, b1 >>,
                [kind |-> "addr", ok |-> a.ok, addr |-> a.addr,
                 pos |-> decode_address(a.addr)])

\* AID::try_from(b); the error carries the byte
CallAidTryFrom ==
  /\ fn_name = "none"
  /\ \E b \in 0..255 :
       \E a \in { AID_try_from(b) } :
         FnCall("AID::try_from", << b >>,
                [kind |-> "aid", aid |-> a,
                 aid_byte |-> IF a = "Invalid" THEN b ELSE 0])

\* u8::from(aid), and AID::try_from on that byte
CallAidInto ==
  /\ fn_name = "none"
  /\ \E a \in AID :
       \E b \in { AID_to_u8(a) } :
         FnCall("u8::from", << a >>,
                [kind |-> "byte", byte |-> b, back |-> AID_try_from(b)])

\* WriteOrder::SendText(text).serialize(output) on an empty output
CallSendText ==
  /\ fn_name = "none"
  /\ \E text \in SampleTexts :
       FnCall("SendText", text,
              [kind |-> "bytes", bytes |-> WriteOrder_serialize(SendText(text))])

\* IncomingRecord::parse_record on the reply of a client
CallParseRecord ==
  /\ fn_name = "none"
  /\ \E record \in ReplyRecords :
       FnCall("parse_record", record,
              [kind |-> "record", res |-> parse_record(record)])

\* the geometries of the 3270 models 2, 3, 4 and 5
SampleGeometries ==
  { BufferAddressCalculator(80, 24), BufferAddressCalculator(80, 32),
    BufferAddressCalculator(80, 43), BufferAddressCalculator(132, 27) }

\* encode_address on a cell of the buffer, decode_address on its result, and
\* last_address of the same calculator
CallEncodeAddress ==
  /\ fn_name = "none"
  /\ \E self \in SampleGeometries :
       \E y \in 0..(self.height - 1), x \in 0..(self.width - 1) :
         \E a \in { calc_encode_address(self, y, x) } :
           FnCall("encode_address", << self.width, self.height, y, x >>,
                  [kind |-> "cell", addr |-> a,
                   pos |-> calc_decode_address(self, a),
                   last |-> calc_last_address(self),
                   overflow |-> \/ Overflows(self.width * y)
                                \/ Overflows(self.width * y + x)
                                \/ Overflows(self.width * self.height)
                                \/ Overflows(self.width * self.height - 1)])

MaxEvents == 3

\* events the telnet parser hands to process_events
SampleEvents ==
  { DataReceive(<< 65 >>), DataReceive(<< 66, 255 >>),
    IacEvent(EOR), IacEvent(NOP),
    Negotiation(WILL, OPT_TTYPE), Negotiation(DO, OPT_EOR),
    Negotiation(WONT, OPT_BINARY),
    Subnegotiation(OPT_TTYPE, << 0, 65 >>), Subnegotiation(OPT_TTYPE, << 1 >>),
    Subnegotiation(OPT_EOR, << 7 >>) }

\* sessions before the call: new, established and idle, established with a
\* record in the queue and bytes in the accumulator
SampleSessions ==
  { NewSession, Established,
    [Established EXCEPT !.incoming_records = << << 67 >>, <<>> >>,
                        !.cur_record = << 68 >>] }

\* Session::process_events(events)
CallProcessEvents ==
  /\ fn_name = "none"
  /\ \E s \in SampleSessions, events \in SeqsUpTo(SampleEvents, MaxEvents) :
       \E r \in { process_events(s, events) } :
         FnCall("process_events", << s, events >>,
                [kind |-> "session", s |-> r.s, sendbuf |-> r.sendbuf,
                 panic |-> r.panic])

\* the caller takes the result
FnReturn ==
  /\ fn_name # "none"
  /\ fn_name' = "none"
  /\ fn_in' = <<>>
  /\ fn_out' = NoCall
  /\ UNCHANGED << codecVars, sessVars, peerVars, ghostVars, initiated,
                  screenVars >>

NextFn ==
  \/ CallParseAddr
  \/ CallAidTryFrom
  \/ CallAidInto
  \/ CallSendText
  \/ CallParseRecord
  \/ CallEncodeAddress
  \/ CallProcessEvents
  \/ FnReturn

SpecFn == InitNeg /\ [][NextFn]_vars

(***************************************************************************)
(* Properties.                                                             *)
(***************************************************************************)
IsPrefix(s, t) == Len(s) <= Len(t) /\ \A i \in 1..Len(s) : s[i] = t[i]

TypedErrors == { "InvalidAID", "UnexpectedEOR", "InvalidData" }

\* C1 (as claimed): parse_record returns Ok or a typed StreamFormatError for
\* every record; it never panics on an index past the end of the record.
C1_ParseNeverPanics ==
  cpc = "parsed" =>
    \/ parsed.st = "Ok"
    \/ parsed.st = "Err" /\ parsed.err \in TypedErrors

\* C2: against the scripted peer (WILL TTYPE, SB TTYPE IS IBM-3278-2 SE,
\* DO EOR, WILL EOR, DO BINARY, WILL BINARY, every byte delivered) the session
\* eventually is ready, the negotiate loop has exited with Ok(true) and
\* Session::new has returned the session.
C2_NegotiationCompletes ==
  <>(pc = "app" /\ neg_result = "OkTrue" /\ is_ready(session))

\* C2 witness: negotiate has returned Ok(true) with the script consumed and
\* the reported terminal type stored.
C2_Witness ==
  /\ pc = "app" /\ neg_result = "OkTrue" /\ new_result = "OkSession"
  /\ script = <<>> /\ rx = <<>>
  /\ session.term_type = SomeTermType(TermTypeName)
  /\ session.is_eor /\ session.is_bin

\* C3 (as claimed): Session::new hands a Session to the application only if
\* negotiation reached readiness.
C3_NewOnlyWhenReady == new_result = "OkSession" => is_ready(session)

\* C4 (as claimed): receive_record(None) on an open connection never returns
\* Ok(None).
C4_NoTimeoutNeverNone ==
  ~(pc = "app" /\ rr_result.kind = "None" /\ rr_timeout = "None" /\ peer_open)

\* C5: the records receive_record has returned are, in order, a prefix of the
\* records the peer has completed with IAC EOR.
C5_ArrivalOrder == IsPrefix(delivered, wire_records)

\* C5 witness: two different records have been returned.
C5_Witness == Len(delivered) >= 2 /\ delivered[1] # delivered[2]

\* C6: once every byte written by send_record(p) has gone through the
\* receiving parser and process_events, exactly one record per payload has
\* been enqueued (or already returned), equal to the payload byte for byte.
C6_IacRoundTrip ==
  (script = <<>> /\ rx = <<>> /\ pc # "panicked") =>
    delivered \o session.incoming_records = sent_payloads

\* C6 witness: a payload holding 0xFF and another byte sits in the queue whole.
C6_Witness ==
  /\ script = <<>> /\ rx = <<>>
  /\ Len(sent_payloads) = 1
  /\ \E i, j \in 1..Len(sent_payloads[1]) :
       sent_payloads[1][i] = IAC /\ sent_payloads[1][j] # IAC
  /\ session.incoming_records = sent_payloads

\* the payload with every 0xFF doubled, as the wire format states it
Doubled(p) ==
  Flatten([i \in 1..Len(p) |-> IF p[i] = 255 THEN << 255, 255 >> ELSE << p[i] >>])

\* C7: the bytes written by send_record are, per payload, the payload with
\* every 0xFF doubled followed by 0xFF 0xEF, and nothing else.
C7_Framing ==
  tx = Flatten([i \in 1..Len(sent_payloads) |->
                  Doubled(sent_payloads[i]) \o << 255, 239 >>])

\* C7 witness: a payload with two 0xFF bytes has been written.
C7_Witness ==
  /\ Len(sent_payloads) = 1
  /\ Cardinality({ i \in 1..Len(sent_payloads[1]) : sent_payloads[1][i] = 255 }) = 2
  /\ Len(tx) = Len(sent_payloads[1]) + 4

\* adjacent SendText orders merged into one
RECURSIVE Coalesce(_)
Coalesce(os) ==
  IF Len(os) <= 1 THEN os
  ELSE IF os[1].op = "SendText" /\ os[2].op = "SendText"
       THEN Coalesce(<< SendText(os[1].text \o os[2].text) >> \o Drop(os, 2))
       ELSE << os[1] >> \o Coalesce(Tail(os))

\* the order lists the round trip is claimed for
RoundTripInput(os) ==
  \A i \in 1..Len(os) :
    /\ os[i].addr < Width * Height
    /\ \A k \in 1..Len(os[i].text) : EncodeGet(os[i].text[k]) # -1
    /\ os[i].op = "RepeatToAddress" => EncodeGet(os[i].val) # -1
    /\ os[i].op = "StartFieldExtended" =>
         \E k \in 1..Len(os[i].attrs) : os[i].attrs[k].typ = "FieldAttribute"

\* C8 (as claimed): parsing the serialized orders of a command gives back the
\* orders, adjacent SendText coalesced.
C8_OrderRoundTrip ==
  (cpc = "parsed" /\ cmd # NoCmd /\ RoundTripInput(cmd.orders)) =>
    parsed.st = "Ok" /\ parsed.orders = Coalesce(cmd.orders)

\* the opcodes of the wire table
WireOpcode(op) ==
  CASE op = "StartField" -> 29
    [] op = "StartFieldExtended" -> 41
    [] op = "SetBufferAddress" -> 17
    [] op = "SetAttribute" -> 40
    [] op = "ModifyField" -> 44
    [] op = "InsertCursor" -> 19
    [] op = "ProgramTab" -> 5
    [] op = "RepeatToAddress" -> 60
    [] op = "EraseUnprotectedToAddress" -> 18
    [] op = "GraphicEscape" -> 8

\* C9 (as claimed): every order other than SendText serializes with the
\* opcode of the wire table as its first byte.
C9_OwnOpcode ==
  (cpc = "out" /\ Len(cmd.orders) >= 1 /\ cmd.orders[1].op # "SendText") =>
    wire[3] = WireOpcode(cmd.orders[1].op)

\* C10 (as claimed): the WCC byte and every FieldAttribute byte on the wire,
\* in StartField, StartFieldExtended and SetAttribute, is WCC_TRANS[bits & 0x3F].
C10_AttributeBytesTranslated ==
  (cpc = "out" /\ Len(cmd.orders) = 1) =>
    LET o == cmd.orders[1]
    IN  /\ wire[2] = WCC_TRANS[(cmd.wcc % 64) + 1]
        /\ o.op = "StartField" => wire[4] = WCC_TRANS[(o.val % 64) + 1]
        /\ o.op = "StartFieldExtended" =>
             \A k \in 1..Len(o.attrs) :
               o.attrs[k].typ = "FieldAttribute" =>
                 wire[4 + 2 * k] = WCC_TRANS[(o.attrs[k].bits % 64) + 1]
        /\ (o.op = "SetAttribute" /\ o.attrs[1].typ = "FieldAttribute") =>
             wire[5] = WCC_TRANS[(o.attrs[1].bits % 64) + 1]

\* C1 failing case: parse_record has panicked on an index past the record's end.
C1_Panicked == cpc = "parsed" /\ parsed.st = "Panic"

\* C3 failing case: Session::new has returned a session although the peer
\* closed before readiness.
C3_ReturnedUnready ==
  new_result = "OkSession" /\ neg_result = "OkFalse" /\ ~is_ready(session)

\* C4 failing case: receive_record(None) has returned Ok(None) with the
\* connection open and a record begun but not ended.
C4_ReturnedNone ==
  /\ pc = "app" /\ rr_result.kind = "None" /\ rr_timeout = "None" /\ peer_open
  /\ session.cur_record # <<>>

\* C8 failing case: an InsertCursor order has come back as SetBufferAddress.
C8_CursorLost ==
  /\ cpc = "parsed" /\ cmd # NoCmd /\ Len(cmd.orders) = 1
  /\ cmd.orders[1].op = "InsertCursor"
  /\ parsed.st = "Ok" /\ parsed.orders = << SetBufferAddress(cmd.orders[1].addr) >>

\* C9 failing case: InsertCursor has been written with the opcode 0x11.
C9_CursorOpcode ==
  cpc = "out" /\ Len(cmd.orders) >= 1 /\ cmd.orders[1].op = "InsertCursor" /\ wire[3] = 17

\* C10 failing case: a StartField attribute byte has been written as its raw bits.
C10_RawStartField ==
  /\ cpc = "out" /\ Len(cmd.orders) = 1 /\ cmd.orders[1].op = "StartField"
  /\ wire[4] = cmd.orders[1].val
  /\ wire[4] # WCC_TRANS[(cmd.orders[1].val % 64) + 1]

\* what present returns for a record, by parse_record alone
ParseOutcome(r) ==
  LET p == parse_record(r)
  IN  IF p.st = "Ok" THEN PresentOk(p.aid, p.addr) ELSE PresentErr(p.err)

\* C11: a parse error does not poison the session.  Every call of present
\* returns what parse_record gives for the record that arrived in its turn,
\* whatever the records before it were; and a call that returns a parse error
\* leaves the session, the unread bytes and the fields as they were.
C11_ErrorsDoNotPoison ==
  /\ [](/\ Len(outcomes) <= Len(wire_records)
        /\ \A i \in 1..Len(outcomes) : outcomes[i] = ParseOutcome(wire_records[i]))
  /\ [][(Len(outcomes') > Len(outcomes) /\ outcomes'[Len(outcomes')].st = "Err")
          => (session' = session /\ rx' = rx /\ fields' = fields)]_vars

\* C11 witness: the record 01 00 00 gave InvalidAID and the record after it
\* was returned and parsed.
C11_Witness ==
  /\ Len(outcomes) = 2
  /\ wire_records[1] = << 1, 0, 0 >>
  /\ outcomes[1] = PresentErr("InvalidAID")
  /\ outcomes[2].st = "Ok"

\* the FieldAttribute entries of an attribute list
FieldAttributesOf(attrs) ==
  { k \in 1..Len(attrs) : attrs[k].typ = "FieldAttribute" }

\* C12 (as claimed): present sends, per field and in declared order,
\* SetBufferAddress(row*80+col), StartFieldExtended(attrs), SendText(text),
\* StartField(PROTECTED) in one EraseWrite command with WCC 0x03; the
\* StartFieldExtended list holds exactly one FieldAttribute, PROTECTED iff the
\* field is read-only.
C12_PresentOrders ==
  spc = "sent" =>
    /\ cmd.command = "EraseWrite" /\ cmd.wcc = 3
    /\ Len(cmd.orders) = 4 * Len(fields0)
    /\ \A i \in 1..Len(fields0) :
         LET f == fields0[i]
             sfe == cmd.orders[4 * i - 2]
         IN  /\ cmd.orders[4 * i - 3] = SetBufferAddress(f.row * 80 + f.col)
             /\ sfe.op = "StartFieldExtended"
             /\ Cardinality(FieldAttributesOf(sfe.attrs)) = 1
             /\ \A k \in FieldAttributesOf(sfe.attrs) :
                  ((sfe.attrs[k].bits \div 32) % 2 = 1) <=> ~f.rw
             /\ cmd.orders[4 * i - 1] = SendText(f.text)
             /\ cmd.orders[4 * i] = StartField(32)

\* C12 failing case: a StartFieldExtended with two FieldAttribute entries has
\* been sent.
C12_TwoFieldAttributes ==
  /\ spc = "sent"
  /\ \E i \in 1..Len(cmd.orders) :
       /\ cmd.orders[i].op = "StartFieldExtended"
       /\ Cardinality(FieldAttributesOf(cmd.orders[i].attrs)) = 2

\* the response addresses position p: SetBufferAddress(p) followed by text
Addressed(os, p) ==
  \E i \in 1..(Len(os) - 1) : os[i] = SetBufferAddress(p) /\ os[i + 1].op = "SendText"

\* the text the response holds for position p: its SendText orders from
\* SetBufferAddress(p) to the next SetBufferAddress, in order
RECURSIVE ClientText(_, _, _)
ClientText(os, p, on) ==
  IF os = <<>> THEN <<>>
  ELSE IF Head(os).op = "SetBufferAddress"
       THEN ClientText(Tail(os), p, Head(os).addr = p)
       ELSE IF Head(os).op = "SendText" /\ on
            THEN Head(os).text \o ClientText(Tail(os), p, on)
            ELSE ClientText(Tail(os), p, on)

\* C13 (as claimed): after present returns Ok, a read-write field addressed by
\* the response holds the client's full text for it, also when the text came
\* as more than one SendText; every other field is unchanged.
C13_FieldsReflectResponse ==
  (spc = "idle" /\ outcomes # <<>> /\ outcomes[Len(outcomes)].st = "Ok") =>
    \A i \in 1..Len(fields) :
      LET f0 == fields0[i]
          p  == encode_address(f0.row, f0.col) + 1
      IN  IF f0.rw /\ Addressed(parsed.orders, p)
          THEN fields[i] = [f0 EXCEPT !.text = ClientText(parsed.orders, p, FALSE)]
          ELSE fields[i] = f0

\* C13 failing case: the response held "A" and "B" for a field and the field
\* holds "B".
C13_LastChunkOnly ==
  /\ spc = "idle" /\ outcomes # <<>> /\ outcomes[Len(outcomes)].st = "Ok"
  /\ \E i \in 1..Len(fields) :
       /\ fields0[i].rw
       /\ ClientText(parsed.orders, encode_address(fields0[i].row, fields0[i].col) + 1, FALSE)
            = << 65, 66 >>
       /\ fields[i].text = << 66 >>

\* s is t with some elements left out
RECURSIVE IsSubseq(_, _)
IsSubseq(s, t) ==
  IF s = <<>> THEN TRUE
  ELSE IF t = <<>> THEN FALSE
  ELSE IF Head(s) = Head(t) THEN IsSubseq(Tail(s), Tail(t))
  ELSE IsSubseq(s, Tail(t))

\* m occurs in bytes as a block
Contains(bytes, m) ==
  \E i \in 0..(Len(bytes) - Len(m)) : SubSeq(bytes, i + 1, i + Len(m)) = m

\* DO TTYPE, WILL TTYPE
Hello == << IAC, DO, OPT_TTYPE, IAC, WILL, OPT_TTYPE >>

\* SB TTYPE SEND SE
TtypeSend == << IAC, SB, OPT_TTYPE, 1, IAC, SE >>

\* WILL EOR, DO EOR, WILL BINARY, DO BINARY
Burst ==
  << << IAC, WILL, OPT_EOR >>, << IAC, DO, OPT_EOR >>,
     << IAC, WILL, OPT_BINARY >>, << IAC, DO, OPT_BINARY >> >>

\* C14: negotiation ordering.  Before its first read the server has written
\* nothing but DO TTYPE, WILL TTYPE, which open everything it writes; what its
\* own code starts afterwards is either TTYPE SEND, and then WILL TTYPE has
\* been received, or EOR and BINARY negotiations in the order WILL EOR, DO
\* EOR, WILL BINARY, DO BINARY, and then the terminal type is stored; all of
\* it is written.
C14_NegotiationOrder ==
  /\ pc = "new" => (tx = <<>> /\ session = NewSession /\ initiated = <<>>)
  /\ pc # "new" => IsPrefix(Hello, tx)
  /\ \A i \in 1..Len(initiated) :
       /\ pc # "panicked" =>
            \A k \in 1..Len(initiated[i]) : Contains(tx, initiated[i][k])
       /\ IF initiated[i] = << TtypeSend >>
          THEN get_option(session.parser.opts, OPT_TTYPE).remote_state
          ELSE IsSubseq(initiated[i], Burst) /\ session.term_type.some

\* C14 witness: TTYPE SEND went out after WILL TTYPE, and the four
\* negotiations after the terminal type was stored.
C14_Witness ==
  /\ Len(initiated) >= 2
  /\ initiated[1] = << TtypeSend >>
  /\ initiated[2] = Burst
  /\ session.term_type.some

\* C15: a call of receive_record that finds the queue non-empty returns its
\* head and changes nothing else: the rest of the queue, the accumulator, the
\* unread bytes of the socket and the stream's timeout and blocking mode stay;
\* and the socket is read only by a call that found the queue empty.
C15_QueuedRecordFirst ==
  [][/\ ((\E t \in Timeouts : ReceiveRecordCall(t)) /\ session.incoming_records # <<>>) =>
          /\ rr_result' = [kind |-> "Some", rec |-> Head(session.incoming_records)]
          /\ session' = [session EXCEPT !.incoming_records = Tail(session.incoming_records)]
          /\ rx' = rx /\ read_timeout' = read_timeout /\ nonblocking' = nonblocking
          /\ pc' = "app"
     /\ (pc = "app" /\ pc' = "rr_first") => session.incoming_records = <<>>
     /\ Len(rx') < Len(rx) => pc \in { "rr_first", "rr_drain" }]_vars

\* C15 witness: two records have been returned, the second to a call with
\* bytes waiting unread in the socket.
C15_Witness ==
  /\ pc = "app" /\ rr_result.kind = "Some"
  /\ Len(delivered) = 2
  /\ session.incoming_records = <<>> /\ session.cur_record = <<>>
  /\ rx # <<>>

\* C16 (as claimed): parse_record never returns Ok with a StartFieldExtended
\* order whose attribute list lacks a FieldAttribute; a count byte of zero is
\* rejected.
C16_SfeNeedsFieldAttribute ==
  (cpc = "parsed" /\ parsed.st = "Ok") =>
    \A i \in 1..Len(parsed.orders) :
      parsed.orders[i].op = "StartFieldExtended" =>
        FieldAttributesOf(parsed.orders[i].attrs) # {}

\* C16 failing case: the record 7D 00 00 29 00 has parsed to Ok with an empty
\* StartFieldExtended.
C16_EmptySfeAccepted ==
  /\ cpc = "parsed" /\ wire = << 125, 0, 0, 41, 0 >>
  /\ parsed.st = "Ok"
  /\ parsed.orders = << StartFieldExtended(<<>>) >>

\* C17: for every 2-byte address (b0, b1), parse_addr returns (b0<<8)+b1 when
\* the top two bits of b0 are 00, ((b0 & 0x3F)<<6) | (b1 & 0x3F) when they are
\* 01 or 11, and InvalidData when they are 10; 4B D4 decodes to 724, which
\* decode_address maps to row 9, column 4 at width 80.
C17_ParseAddrDecodes ==
  fn_name = "parse_addr" =>
    LET b0  == fn_in[1]
        b1  == fn_in[2]
        top == b0 \div 64
    IN  /\ top = 0 => fn_out.ok /\ fn_out.addr = b0 * 256 + b1
        /\ top \in { 1, 3 } =>
             fn_out.ok /\ fn_out.addr = (b0 % 64) * 64 + (b1 % 64)
        /\ top = 2 => ~fn_out.ok
        /\ fn_in = << 75, 212 >> =>
             fn_out.addr = 724 /\ fn_out.pos = << 9, 4 >>

C17_Witness ==
  /\ fn_name = "parse_addr"
  /\ fn_in = << 75, 212 >>
  /\ fn_out.ok
  /\ fn_out.addr = 724
  /\ fn_out.pos = << 9, 4 >>

\* a reply made of an AID byte, a cursor address, SBA with its address and a
\* run of data bytes, whose AID is defined and whose addresses decode
ReplyShaped(r) ==
  /\ Len(r) >= 7
  /\ r[4] = 17
  /\ \A i \in 7..Len(r) : r[i] >= 64
  /\ AID_try_from(r[1]) # "Invalid"
  /\ parse_addr(SubSeq(r, 2, 3)).ok
  /\ parse_addr(SubSeq(r, 5, 6)).ok

\* C18: parsing 7D 4B D4 11 00 C9 C1 D3 C9 C3 C5 yields aid = Enter, addr = 724
\* and orders = [SetBufferAddress(201), SendText("ALICE")]; in general a record
\* made of an AID byte, a cursor address, a SetBufferAddress order and a run of
\* bytes >= 0x40 parses to that AID, that cursor address and exactly the two
\* orders SetBufferAddress then SendText, in wire order.
C18_ReadModifiedReply ==
  fn_name = "parse_record" =>
    LET r   == fn_in
        res == fn_out.res
    IN  /\ ReplyShaped(r) =>
             /\ res.st = "Ok"
             /\ AID_to_u8(res.aid) = r[1]
             /\ res.addr = parse_addr(SubSeq(r, 2, 3)).addr
             /\ Len(res.orders) = 2
             /\ res.orders[1] =
                  SetBufferAddress(parse_addr(SubSeq(r, 5, 6)).addr)
             /\ res.orders[2] =
                  SendText([i \in 1..(Len(r) - 6) |-> Decode(r[6 + i])])
        /\ r = AliceReply =>
             /\ res.aid = "Enter"
             /\ res.addr = 724
             /\ res.orders = << SetBufferAddress(201),
                                SendText(<< 65, 76, 73, 67, 69 >>) >>

C18_Witness ==
  /\ fn_name = "parse_record"
  /\ fn_in = AliceReply
  /\ fn_out.res.st = "Ok"
  /\ fn_out.res.addr = 724
  /\ Len(fn_out.res.orders) = 2

\* C18 with the cursor address of the example as stated: addr = 203
C18_AddrAsStated ==
  fn_name = "parse_record" /\ fn_in = AliceReply =>
    /\ fn_out.res.aid = "Enter"
    /\ fn_out.res.addr = 203
    /\ fn_out.res.orders = << SetBufferAddress(201),
                              SendText(<< 65, 76, 73, 67, 69 >>) >>

\* C19: every byte that serializing SendText emits is >= 0x40; a character
\* outside the encode table and a character whose table entry is below 0x40
\* are both emitted as 0x40; one byte is emitted per character.
C19_SendTextBytes ==
  fn_name = "SendText" =>
    /\ Len(fn_out.bytes) = Len(fn_in)
    /\ \A i \in 1..Len(fn_in) :
         /\ fn_out.bytes[i] \in 64..255
         /\ fn_in[i] >= Len(ENCODE_TBL) => fn_out.bytes[i] = 64
         /\ fn_in[i] < Len(ENCODE_TBL) /\ ENCODE_TBL[fn_in[i] + 1] < 64 =>
              fn_out.bytes[i] = 64

C19_Witness ==
  /\ fn_name = "SendText"
  /\ fn_in = << 8364, 10, 65 >>
  /\ fn_out.bytes = << 64, 64, 193 >>

\* C20: for each of the 39 variants a, AID::try_from(u8::from(a)) = Ok(a) and no
\* other variant has the byte of a; for each byte b, AID::try_from(b) is Ok(a)
\* with u8::from(a) = b when b is a defined byte and Err(InvalidAID{aid: b})
\* otherwise.
C20_AidBijection ==
  /\ fn_name = "u8::from" =>
       /\ Cardinality(AID) = 39
       /\ fn_out.back = fn_in[1]
       /\ \A a \in AID \ { fn_in[1] } : AID_to_u8(a) # fn_out.byte
  /\ fn_name = "AID::try_from" =>
       IF fn_in[1] \in { AID_to_u8(a) : a \in AID }
       THEN fn_out.aid \in AID /\ AID_to_u8(fn_out.aid) = fn_in[1]
       ELSE fn_out.aid = "Invalid" /\ fn_out.aid_byte = fn_in[1]

C20_Witness ==
  /\ fn_name = "AID::try_from"
  /\ fn_in = << 125 >>
  /\ fn_out.aid = "Enter"

C22_ReadinessBitsAgree ==
  pc # "panicked" =>
    /\ session.is_eor = option_state(session, OPT_EOR)
    /\ session.is_bin = option_state(session, OPT_BINARY)
    /\ ( /\ session.term_type.some
         /\ option_state(session, OPT_EOR)
         /\ option_state(session, OPT_BINARY) ) => is_ready(session)

\* the peer sent WILL EOR and WILL BINARY before its TTYPE reply: both options
\* are on in both directions, the terminal type is known, the bits are stale
C22_StaleReadiness ==
  /\ pc # "panicked"
  /\ session.term_type.some
  /\ option_state(session, OPT_EOR)
  /\ option_state(session, OPT_BINARY)
  /\ ~session.is_eor
  /\ ~session.is_bin
  /\ ~is_ready(session)

\* what the orders after a fixed-length order must be: the parse of the header
\* followed by the bytes after the first n order bytes
ParseAfter(n) == parse_record(Take(wire, 3) \o Drop(wire, 3 + n))

\* the record's header parses and its first order byte is b
FirstOrderIs(b) ==
  /\ cpc = "parsed"
  /\ Len(wire) >= 4
  /\ parse_record(Take(wire, 3)).st = "Ok"
  /\ wire[4] = b

\* C23 (as claimed): the bytes 08 b s parse to GraphicEscape(b) followed by the
\* orders of s; parsing resumes at the first byte of s.
C23_GraphicEscapePayload ==
  (FirstOrderIs(8) /\ Len(wire) >= 5) =>
    IF ParseAfter(2).st = "Ok"
    THEN /\ parsed.st = "Ok"
         /\ parsed.orders = << GraphicEscape(wire[5]) >> \o ParseAfter(2).orders
    ELSE parsed.st = ParseAfter(2).st /\ parsed.err = ParseAfter(2).err

\* C23 failing case: 08 C1 C0 has parsed to GraphicEscape(0xC0), and 0xC0 is
\* parsed once more as text.
C23_NextByteTaken ==
  /\ cpc = "parsed" /\ wire = << 125, 0, 0, 8, 193, 192 >>
  /\ parsed.st = "Ok"
  /\ Len(parsed.orders) = 2
  /\ parsed.orders[1] = GraphicEscape(192)
  /\ parsed.orders[2].op = "SendText"

\* C24 (as claimed): the bytes 3C a0 a1 c s parse to RepeatToAddress(addr,
\* decode(c)) followed by the orders of s; parsing resumes at the fifth byte.
C24_RepeatToAddressChar ==
  (FirstOrderIs(60) /\ Len(wire) >= 7 /\ parse_addr(SubSeq(wire, 5, 6)).ok) =>
    IF ParseAfter(4).st = "Ok"
    THEN /\ parsed.st = "Ok"
         /\ parsed.orders =
              << RepeatToAddress(parse_addr(SubSeq(wire, 5, 6)).addr,
                                 Decode(wire[7])) >> \o ParseAfter(4).orders
    ELSE parsed.st = ParseAfter(4).st /\ parsed.err = ParseAfter(4).err

\* C24 failing case: 3C 00 05 C1 C2 has parsed to RepeatToAddress(5, 'B'), the
\* character of the byte after the order, and that byte is parsed again as text.
C24_FifthByteTaken ==
  /\ cpc = "parsed" /\ wire = << 125, 0, 0, 60, 0, 5, 193, 194 >>
  /\ parsed.st = "Ok"
  /\ parsed.orders = << RepeatToAddress(5, Decode(194)), SendText(<< Decode(194) >>) >>

\* the attribute pairs of a counted order: some pair has an unknown type or an
\* out-of-range value
BadPair(r, count) ==
  \E i \in 1..count :
    ~ExtendedFieldAttribute_try_from(<< r[2 * i + 1], r[2 * i + 2] >>).ok

\* the class of a sequence of order bytes, read order by order: "Ok" when every
\* order is whole and well-formed, "UnexpectedEOR" when the bytes end inside an
\* order, "InvalidData" for an undefined order byte, an address with top bits
\* 10 or an attribute that is not valid
RECURSIVE Classify(_)
Classify(r) ==
  IF Len(r) = 0 THEN "Ok"
  ELSE
    LET b == r[1]
    IN  CASE b >= 64 -> Classify(Drop(r, 1))
          [] b = 5 -> Classify(Drop(r, 1))
          [] b = 8 ->
               IF Len(r) < 2 THEN "UnexpectedEOR" ELSE Classify(Drop(r, 2))
          [] b = 29 ->
               IF Len(r) < 2 THEN "UnexpectedEOR"
               ELSE IF ~FieldAttributeFromBitsOk(r[2] % 64) THEN "InvalidData"
               ELSE Classify(Drop(r, 2))
          [] b \in { 17, 18, 19 } ->
               IF Len(r) < 3 THEN "UnexpectedEOR"
               ELSE IF r[2] \div 64 = 2 THEN "InvalidData"
               ELSE Classify(Drop(r, 3))
          [] b = 60 ->
               IF Len(r) < 4 THEN "UnexpectedEOR"
               ELSE IF r[2] \div 64 = 2 THEN "InvalidData"
               ELSE Classify(Drop(r, 4))
          [] b = 40 ->
               IF Len(r) < 3 THEN "UnexpectedEOR"
               ELSE IF ~ExtendedFieldAttribute_try_from(<< r[2], r[3] >>).ok
               THEN "InvalidData"
               ELSE Classify(Drop(r, 3))
          [] b \in { 41, 44 } ->
               IF Len(r) < 2 THEN "UnexpectedEOR"
               ELSE IF Len(r) - 2 < 2 * r[2] THEN "UnexpectedEOR"
               ELSE IF BadPair(r, r[2]) THEN "InvalidData"
               ELSE Classify(Drop(r, 2 + 2 * r[2]))
          [] OTHER -> "InvalidData"

\* C25: a record that ends inside a multi-byte order yields UnexpectedEOR; an
\* undefined order byte below 0x40, an address whose top two bits are 10 and an
\* attribute pair with an unknown type or an out-of-range value yield
\* InvalidData; in each case no record (no Ok, no partial list of orders) is
\* returned.
C25_ErrorClassification ==
  (cpc = "parsed" /\ Len(wire) >= 3 /\ AID_try_from(wire[1]) # "Invalid") =>
    LET class == IF wire[2] \div 64 = 2 THEN "InvalidData"
                 ELSE Classify(Drop(wire, 3))
    IN  class # "Ok" =>
          /\ parsed.st = "Err"
          /\ parsed.err = class
          /\ parsed.orders = <<>>

\* C25 witness: after a whole ProgramTab the record ends inside a
\* SetBufferAddress; the result is UnexpectedEOR and holds no order.
C25_Witness ==
  /\ cpc = "parsed" /\ wire = << 125, 0, 0, 5, 17, 0 >>
  /\ parsed.st = "Err" /\ parsed.err = "UnexpectedEOR"
  /\ parsed.orders = <<>>

\* the data bytes of the DataReceive events of a list, in order
RECURSIVE DataOf(_)
DataOf(evs) ==
  IF Len(evs) = 0 THEN <<>>
  ELSE (IF Head(evs).kind = "DataReceive" THEN Head(evs).data ELSE <<>>)
         \o DataOf(Tail(evs))

IsEor(e) == e.kind = "IAC" /\ e.command = EOR

EorCount(evs) == Cardinality({ i \in 1..Len(evs) : IsEor(evs[i]) })

\* C26: over a call of process_events the records enqueued so far, in queue
\* order, followed by the accumulator equal what they were followed by the
\* data bytes of the events; each IAC EOR event enqueues exactly one record
\* and leaves the accumulator empty; negotiation, subnegotiation and unknown
\* IAC events change neither the queue nor the accumulator.
C26_RecordConservation ==
  (fn_name = "process_events" /\ ~fn_out.panic) =>
    LET s0  == fn_in[1]
        evs == fn_in[2]
        s1  == fn_out.s
    IN  /\ Flatten(s1.incoming_records) \o s1.cur_record =
             Flatten(s0.incoming_records) \o s0.cur_record \o DataOf(evs)
        /\ Len(s1.incoming_records) = Len(s0.incoming_records) + EorCount(evs)
        /\ IsPrefix(s0.incoming_records, s1.incoming_records)
        /\ (Len(evs) > 0 /\ IsEor(evs[Len(evs)])) => s1.cur_record = <<>>
        /\ (\A i \in 1..Len(evs) : evs[i].kind # "DataReceive" /\ ~IsEor(evs[i])) =>
             /\ s1.incoming_records = s0.incoming_records
             /\ s1.cur_record = s0.cur_record

\* C26 witness: data, IAC EOR, data on a session that held a queue and an
\* accumulator: one record more, made of the old accumulator and the data.
C26_Witness ==
  /\ fn_name = "process_events"
  /\ fn_in[1].cur_record = << 68 >>
  /\ fn_in[2] = << DataReceive(<< 66, 255 >>), IacEvent(EOR), DataReceive(<< 65 >>) >>
  /\ fn_out.s.incoming_records = << << 67 >>, <<>>, << 68, 66, 255 >> >>
  /\ fn_out.s.cur_record = << 65 >>

\* C27 (as claimed): for every successfully parsed response the walk of present
\* computes incoming_addr - 1 without underflow or panic, also for a SendText
\* after SetBufferAddress(0) and for one with no SetBufferAddress before it;
\* a field the response does not address is left unchanged.
C27_WalkSafe ==
  /\ (spc = "panicked" /\ rr_result.kind = "Some") =>
       parse_record(rr_result.rec).st # "Ok"
  /\ (spc = "idle" /\ outcomes # <<>> /\ outcomes[Len(outcomes)].st = "Ok") =>
       \A i \in 1..Len(fields) :
         ~Addressed(parsed.orders, encode_address(fields0[i].row, fields0[i].col) + 1)
           => fields[i] = fields0[i]

\* C27 failing case: the response 7D 00 00 11 00 00 C1 parsed to
\* [SetBufferAddress(0), SendText("A")] and the walk panicked on 0 - 1.
C27_WalkPanicked ==
  /\ spc = "panicked"
  /\ rr_result.kind = "Some"
  /\ rr_result.rec = << 125, 0, 0, 17, 0, 0, 193 >>
  /\ parse_record(rr_result.rec).st = "Ok"
  /\ parse_record(rr_result.rec).orders[1] = SetBufferAddress(0)

\* C28 (as claimed): process_events handles every event the parser produces
\* from the peer's bytes without panicking; a TTYPE subnegotiation with an
\* empty payload (SB TTYPE IAC SE) is ignored.
C28_EmptyTtypeIgnored == pc # "panicked"

\* C28 failing case: the peer's only message was SB TTYPE IAC SE, the session
\* has read it whole, and process_events panicked on buffer[0].
C28_PanickedOnEmptyTtype ==
  /\ pc = "panicked"
  /\ peer_sent = 1
  /\ rx = <<>>
  /\ ~session.term_type.some
  /\ ReceiveAndProcess(InitialNegotiation(NewSession).s, MsgTtypeEmpty).panic

\* C29 (as claimed): whenever receive_record has returned, the stream is in
\* blocking mode with no read timeout; non-blocking mode is on only inside the
\* drain loop.
C29_BlockingRestored ==
  /\ (pc = "app" /\ rr_result # NoResult) =>
       ~nonblocking /\ read_timeout = "None"
  /\ (nonblocking /\ pc # "panicked") => pc = "rr_drain"

\* C29 failing case: receive_record returned the error of a read of the drain
\* loop and the stream is still non-blocking.
C29_LeftNonBlocking ==
  /\ pc = "app"
  /\ rr_result.kind = "Err"
  /\ nonblocking

\* C30: parse_record terminates on every record: its order loop runs at most
\* as many times as the record has bytes after the 3-byte header, and it never
\* pushes a SendText order with empty text.
C30_ParseTerminates ==
  cpc = "parsed" =>
    /\ parsed.iters <= (IF Len(wire) > 3 THEN Len(wire) - 3 ELSE 0)
    /\ parsed.st = "Ok" => Len(parsed.orders) = parsed.iters
    /\ \A i \in 1..Len(parsed.orders) :
         parsed.orders[i].op = "SendText" => Len(parsed.orders[i].text) > 0

\* C30 witness: three one-byte orders after the header took three iterations.
C30_Witness ==
  /\ cpc = "parsed" /\ wire = << 125, 0, 0, 5, 193, 5 >>
  /\ parsed.st = "Ok"
  /\ parsed.iters = 3
  /\ parsed.orders[2].op = "SendText"
====
